---- MODULE Spec2Model ----
(***************************************************************************)
(* A model of the wavepacket library: grids, states, operators,            *)
(* expressions, the degrees of freedom and the polynomial solvers.         *)
(*                                                                         *)
(* Objects that Python compares by identity (Grid, DofBase) are modelled   *)
(* by their object number.  Complex coefficients are modelled exactly in   *)
(* the field of Gaussian integers modulo 11 (pairs <<re, im>>), a field    *)
(* with complex conjugation, square roots of 3 and 4 and roots of unity of *)
(* order 3 and 4; floating-point rounding is outside the model.  Results   *)
(* of library kernels that the source only calls (Bessel functions, the    *)
(* exponential) enter as inputs or as group homomorphisms into that field. *)
(***************************************************************************)
EXTENDS Integers, Sequences, FiniteSets, TLC

VARIABLES call, solver, stepHist, dofRun, genRun, heap

vars == <<call, solver, stepHist, dofRun, genRun, heap>>

(***************************************************************************)
(* Bounds of the model.                                                    *)
(***************************************************************************)
MaxGrid == 5
MaxT == 1
MaxSeed == 2
MaxMembers == 3
MaxOrder == 4
MaxDt == 2

(***************************************************************************)
(* Complex scalars: Gaussian integers modulo 11.                           *)
(***************************************************************************)
Fp(x) == x % 11

Cx(re, im) == <<Fp(re), Fp(im)>>

CAdd(a, b) == Cx(a[1] + b[1], a[2] + b[2])

CSub(a, b) == Cx(a[1] - b[1], a[2] - b[2])

CMul(a, b) == Cx(a[1] * b[1] - a[2] * b[2], a[1] * b[2] + a[2] * b[1])

CConj(a) == Cx(a[1], 0 - a[2])

CZero == Cx(0, 0)

COne == Cx(1, 0)

\* -1j
CMinusI == Cx(0, 0 - 1)

\* the inverse of a nonzero real x modulo 11
RInv(x) == CHOOSE y \in 1..10 : Fp(x * y) = 1

RECURSIVE CPow(_, _)
CPow(a, n) == IF n = 0 THEN COne ELSE CMul(a, CPow(a, n - 1))

(***************************************************************************)
(* Tensors (numpy arrays): a shape and the values in row-major order.      *)
(***************************************************************************)
RECURSIVE Prod(_)
Prod(shape) == IF shape = <<>> THEN 1 ELSE Head(shape) * Prod(Tail(shape))

\* vals \o <<>> is vals, held as a sequence of values
Tensor(shape, vals) == [shape |-> shape, vals |-> vals \o <<>>]

\* 0-based index along `axis` (1-based position in shape) of the flat position k (1-based)
AxisIndex(shape, axis, k) ==
    ((k - 1) \div Prod(SubSeq(shape, axis + 1, Len(shape)))) % shape[axis]

TScale(c, a) == Tensor(a.shape, [k \in 1..Len(a.vals) |-> CMul(c, a.vals[k])])

TAdd(a, b) == Tensor(a.shape, [k \in 1..Len(a.vals) |-> CAdd(a.vals[k], b.vals[k])])

TSub(a, b) == Tensor(a.shape, [k \in 1..Len(a.vals) |-> CSub(a.vals[k], b.vals[k])])

TZeros(shape) == Tensor(shape, [k \in 1..Prod(shape) |-> CZero])

\* data * reshape(vector, [1, .., n, .., 1]) with the vector on `axis`
TScaleAxis(vector, axis, a) ==
    Tensor(a.shape,
           [k \in 1..Len(a.vals) |->
               CMul(vector[AxisIndex(a.shape, axis, k) + 1], a.vals[k])])

(***************************************************************************)
(* Degrees of freedom and grids.  Grid objects are 1..MaxGrid; several     *)
(* objects hold the same DOF sequence, and one holds the empty sequence,   *)
(* which Grid.__init__ accepts.                                            *)
(***************************************************************************)
DofSize(d) == d + 1

DvrPoints(d) == [k \in 1..DofSize(d) |-> k - 1]

GridIds == 1..MaxGrid

GridDofs(g) ==
    CASE g % 5 = 1 -> <<1>>
      [] g % 5 = 2 -> <<1>>
      [] g % 5 = 3 -> <<1, 2>>
      [] g % 5 = 4 -> <<>>
      [] OTHER -> <<2>>

GridShape(g) == [i \in 1..Len(GridDofs(g)) |-> DofSize(GridDofs(g)[i])]

OperatorShape(g) == GridShape(g) \o GridShape(g)

NDof(g) == Len(GridDofs(g))

\* a Grid.__eq__ that compares the DOF sequences
GridEqStructural(g1, g2) == GridDofs(g1) = GridDofs(g2)

\* `grid1 != grid2` is False exactly when the two are equal; Grid defines no
\* __eq__, so equality is the identity of the objects.
GridEq(g1, g2) == g1 = g2

\* Grid.normalize_index for an index in range
NormalizeIndex(g, index) == IF index < 0 THEN index + NDof(g) ELSE index

(***************************************************************************)
(* States.                                                                 *)
(***************************************************************************)
State(g, data) == [grid |-> g, data |-> data]

IsWaveFunction(s) == s.data.shape = GridShape(s.grid)

IsDensityOperator(s) == s.data.shape = OperatorShape(s.grid)

Shapes == {<<>>, <<1>>, <<2>>, <<3>>, <<2, 2>>, <<3, 3>>, <<2, 3>>, <<2, 3, 2, 3>>}

MkVals(n, seed) == [k \in 1..n |-> Cx(seed + k, seed * k)]

States ==
    {State(g, Tensor(sh, MkVals(Prod(sh), seed))) :
        g \in GridIds, sh \in Shapes, seed \in 1..MaxSeed}

Times == 0..MaxT

(***************************************************************************)
(* Operators.  A leaf is a TimeDependentOperator, a Constant or a          *)
(* Potential1D; OperatorSum and OperatorProduct hold a member sequence.    *)
(***************************************************************************)
\* the functions f(t) handed to TimeDependentOperator: t and 1 + i*t
TdFunc(f, t) == IF f = 1 THEN Cx(t, 0) ELSE Cx(1, t)

Td(g, f) == [kind |-> "td", grid |-> g, func |-> f]

Const(g, v) == [kind |-> "const", grid |-> g, value |-> v]

\* Potential1D(grid, dof_index, lambda x: x): the generator is evaluated at
\* grid.dofs[dof_index].dvr_points
Pot(g, idx) ==
    [kind |-> "pot", grid |-> g, dof_index |-> idx,
     data |-> LET d == GridDofs(g)[NormalizeIndex(g, idx) + 1]
              IN [k \in 1..DofSize(d) |-> Cx(DvrPoints(d)[k], 0)]]

OpSum(ops) == [kind |-> "sum", grid |-> ops[1].grid, ops |-> ops]

OpProd(ops) == [kind |-> "prod", grid |-> ops[1].grid, ops |-> ops]

RECURSIVE TimeDependentFrom(_)
\* the time_dependent property of an operator
TimeDependent(op) ==
    CASE op.kind = "td" -> TRUE
      [] op.kind \in {"sum", "prod"} -> TimeDependentFrom(op.ops)
      [] OTHER -> FALSE

\* a time dependence taken from the first member alone
TimeDependentFirstOnly(ops) == ops # <<>> /\ TimeDependent(Head(ops))

\* any(td_vals) over the members
TimeDependentFrom(ops) ==
    IF ops = <<>> THEN FALSE
    ELSE TimeDependent(Head(ops)) \/ TimeDependentFrom(Tail(ops))

Reverse(s) == [i \in 1..Len(s) |-> s[Len(s) + 1 - i]]

Invoked(op, prim, t) == [op |-> op, prim |-> prim, t |-> t]

\* a product that runs through its members first to last for every primitive
ProductOrderForward(ops, prim) == ops

\* OperatorProduct: `for op in reversed(self._ops)` in apply_to_wave_function
\* and apply_from_left, `for op in self._ops` in apply_from_right
ProductOrder(ops, prim) == IF prim = "right" THEN ops ELSE Reverse(ops)

\* the axis (1-based) a Potential1D multiplies along, for each primitive
PotAxis(op, prim) ==
    IF prim = "right"
    THEN NormalizeIndex(op.grid, op.dof_index) + NDof(op.grid) + 1
    ELSE NormalizeIndex(op.grid, op.dof_index) + 1

\* a TimeDependentOperator that multiplies by f(t) on the bra side as well
TdFactorNoConj(op, prim, t) == TdFunc(op.func, t)

\* TimeDependentOperator: self._func(t) in apply_to_wave_function and
\* apply_from_left, self._func(t).conjugate() in apply_from_right
TdFactor(op, prim, t) ==
    IF prim = "right" THEN CConj(TdFunc(op.func, t)) ELSE TdFunc(op.func, t)

\* the arguments of the calls of self._func that one primitive makes
TdFuncCalls(op, prim, t) == <<t>>

RECURSIVE ApplyPrim(_, _, _, _)
RECURSIVE SumFold(_, _, _, _, _)
RECURSIVE ProdFold(_, _, _, _)

\* the primitives apply_to_wave_function ("wf"), apply_from_left ("left") and
\* apply_from_right ("right") on raw coefficients: the result and the leaf
\* primitives invoked, in order
ApplyPrim(op, prim, data, t) ==
    CASE op.kind = "td" ->
           [data |-> TScale(TdFactor(op, prim, t), data),
            log |-> <<Invoked(op, prim, t)>>]
      [] op.kind = "const" ->
           [data |-> TScale(op.value, data), log |-> <<Invoked(op, prim, t)>>]
      [] op.kind = "pot" ->
           [data |-> TScaleAxis(op.data, PotAxis(op, prim), data),
            log |-> <<Invoked(op, prim, t)>>]
      [] op.kind = "sum" ->
           SumFold(op.ops, prim, data, t,
                   [data |-> TZeros(IF prim = "wf" THEN GridShape(op.grid)
                                                   ELSE OperatorShape(op.grid)),
                    log |-> <<>>])
      [] OTHER ->
           ProdFold(ProductOrder(op.ops, prim), prim, t,
                    [data |-> data, log |-> <<>>])

\* OperatorSum: result += op.apply_*(psi, t) for each member
SumFold(ops, prim, data, t, acc) ==
    IF ops = <<>> THEN acc
    ELSE LET r == ApplyPrim(Head(ops), prim, data, t)
         IN SumFold(Tail(ops), prim, data, t,
                    [data |-> TAdd(acc.data, r.data), log |-> acc.log \o r.log])

\* OperatorProduct: result = op.apply_*(result, t) for each member in turn
ProdFold(ops, prim, t, acc) ==
    IF ops = <<>> THEN acc
    ELSE LET r == ApplyPrim(Head(ops), prim, acc.data, t)
         IN ProdFold(Tail(ops), prim, t,
                     [data |-> r.data, log |-> acc.log \o r.log])

\* the dispatch of OperatorBase.apply once the grids match
ApplyDispatch(op, state, t) ==
    IF IsWaveFunction(state)
    THEN LET r == ApplyPrim(op, "wf", state.data, t)
         IN [outcome |-> "ok", result |-> State(state.grid, r.data), log |-> r.log]
    ELSE IF IsDensityOperator(state)
    THEN LET r == ApplyPrim(op, "left", state.data, t)
         IN [outcome |-> "ok", result |-> State(state.grid, r.data), log |-> r.log]
    ELSE [outcome |-> "BadStateError", result |-> "none", log |-> <<>>]

\* OperatorBase.apply(state, t)
OperatorApplyResult(op, state, t) ==
    IF ~GridEq(state.grid, op.grid)
    THEN [outcome |-> "BadGridError", result |-> "none", log |-> <<>>]
    ELSE ApplyDispatch(op, state, t)

LeafOps(g) ==
    {Td(g, 1), Td(g, 2), Const(g, Cx(2, 0))}
    \cup {Pot(g, idx) : idx \in {i \in {0, 0 - 1} : NDof(g) > 0}}

\* operators as the constructors and the + and * overloads build them
Operators ==
    UNION {LeafOps(g) : g \in GridIds}
    \cup {OpSum(<<Td(g, 2), Const(g, Cx(2, 0))>>) : g \in GridIds}
    \cup {OpProd(<<Td(g, 1), Pot(g, 0)>>) : g \in {h \in GridIds : NDof(h) > 0}}

(***************************************************************************)
(* State arithmetic.                                                       *)
(***************************************************************************)
\* State._check_states: the exception it raises, or "ok"
CheckStates(s1, s2) ==
    IF ~GridEq(s1.grid, s2.grid) THEN "BadGridError"
    ELSE IF s1.data.shape # s2.data.shape THEN "BadStateError"
    ELSE "ok"

\* State.__add__ (arith = "add") and State.__sub__ (arith = "sub") of two States
StateArith(arith, s1, s2) ==
    IF CheckStates(s1, s2) # "ok"
    THEN [outcome |-> CheckStates(s1, s2), result |-> "none"]
    ELSE [outcome |-> "ok",
          result |-> State(s1.grid, IF arith = "add" THEN TAdd(s1.data, s2.data)
                                                     ELSE TSub(s1.data, s2.data))]

(***************************************************************************)
(* Expressions.                                                            *)
(***************************************************************************)
SchroedingerEquation(op) == [kind |-> "schroedinger", op |-> op]

CommutatorLiouvillian(op) == [kind |-> "commutator", op |-> op]

OneSidedLiouvillian(op, side) == [kind |-> "onesided", op |-> op, side |-> side]

Expressions ==
    {SchroedingerEquation(op) : op \in Operators}
    \cup {CommutatorLiouvillian(op) : op \in Operators}
    \cup {OneSidedLiouvillian(op, side) : op \in Operators, side \in {"LEFT", "RIGHT"}}

\* the time_dependent attribute of an expression: that of the wrapped operator,
\* and for an ExpressionSum the value its constructor stored
ExprTimeDependent(expr) ==
    IF expr.kind = "exprsum" THEN expr.time_dependent ELSE TimeDependent(expr.op)

\* a right-hand side that applies the operator from the left only
ExprComputeLeftOnly(expr, state, t) ==
    LET l == ApplyPrim(expr.op, "left", state.data, t)
    IN [data |-> TScale(CMinusI, l.data), log |-> l.log]

\* what each expression computes from an accepted state
ExprCompute(expr, state, t) ==
    CASE expr.kind = "schroedinger" ->
           LET r == ApplyPrim(expr.op, "wf", state.data, t)
           IN [data |-> TScale(CMinusI, r.data), log |-> r.log]
      [] expr.kind = "commutator" ->
           LET l == ApplyPrim(expr.op, "left", state.data, t)
               r == ApplyPrim(expr.op, "right", state.data, t)
           IN [data |-> TScale(CMinusI, TSub(l.data, r.data)), log |-> l.log \o r.log]
      [] OTHER ->
           ApplyPrim(expr.op, IF expr.side = "LEFT" THEN "left" ELSE "right",
                     state.data, t)

\* whether the state has the shape class the expression works on
ExprAccepts(expr, state) ==
    IF expr.kind = "schroedinger" THEN IsWaveFunction(state)
    ELSE IsDensityOperator(state)

\* an apply that tests the shape class before the grid
ExprApplyResultShapeFirst(expr, state, t) ==
    IF ~ExprAccepts(expr, state)
    THEN [outcome |-> "BadStateError", result |-> "none", log |-> <<>>]
    ELSE IF ~GridEq(state.grid, expr.op.grid)
    THEN [outcome |-> "BadGridError", result |-> "none", log |-> <<>>]
    ELSE LET r == ExprCompute(expr, state, t)
         IN [outcome |-> "ok", result |-> State(state.grid, r.data), log |-> r.log]

\* SchroedingerEquation.apply, CommutatorLiouvillian.apply, OneSidedLiouvillian.apply
ExprApplyResult(expr, state, t) ==
    IF ~GridEq(state.grid, expr.op.grid)
    THEN [outcome |-> "BadGridError", result |-> "none", log |-> <<>>]
    ELSE IF ~ExprAccepts(expr, state)
    THEN [outcome |-> "BadStateError", result |-> "none", log |-> <<>>]
    ELSE LET r == ExprCompute(expr, state, t)
         IN [outcome |-> "ok", result |-> State(state.grid, r.data), log |-> r.log]

(***************************************************************************)
(* Building OperatorSum and OperatorProduct.                               *)
(***************************************************************************)
\* a member check that looks at the second member only
AllOnGridSecondOnly(ops, g) == Len(ops) < 2 \/ GridEq(ops[2].grid, g)

RECURSIVE AllOnGrid(_, _)
\* for op in ops: op.grid != ops[0].grid raises
AllOnGrid(ops, g) ==
    IF ops = <<>> THEN TRUE
    ELSE GridEq(Head(ops).grid, g) /\ AllOnGrid(Tail(ops), g)

\* OperatorSum.__init__ (kind = "sum") and OperatorProduct.__init__ (kind = "prod")
NewComposite(kind, ops) ==
    IF ops = <<>> THEN [outcome |-> "InvalidValueError", result |-> "none"]
    ELSE IF ~AllOnGrid(ops, ops[1].grid)
    THEN [outcome |-> "BadGridError", result |-> "none"]
    ELSE [outcome |-> "ok",
          result |-> IF kind = "sum" THEN OpSum(ops) ELSE OpProd(ops)]

\* OperatorBase.__add__ / __mul__: a number becomes Constant(self._grid, other)
Overload(kind, self, other, otherIsOperator) ==
    NewComposite(kind, <<self, IF otherIsOperator THEN other
                               ELSE Const(self.grid, other)>>)

MemberOps == UNION {{Td(g, 1), Const(g, Cx(2, 0))} : g \in GridIds}

RECURSIVE SeqsUpTo(_, _)
SeqsUpTo(S, n) ==
    IF n = 0 THEN {<<>>}
    ELSE SeqsUpTo(S, n - 1)
         \cup {Append(q, x) : q \in {r \in SeqsUpTo(S, n - 1) : Len(r) = n - 1}, x \in S}

Scalars == {Cx(2, 0), Cx(0, 1)}

(***************************************************************************)
(* The polynomial solvers.  scipy's Bessel functions enter the constructor *)
(* as a table jv[n] of the values J_n(alpha) (I_n(alpha) for the           *)
(* RelaxationSolver); a table ends in a vanishing entry because the Bessel *)
(* functions tend to 0 with growing order.  alpha is held doubled, the     *)
(* exponential prefactor is a power of a fixed unit.                       *)
(***************************************************************************)
Abs(x) == IF x < 0 THEN 0 - x ELSE x

BesselValues == {0 - 1, 0, 1}

BesselTables ==
    {jv \in [0..MaxOrder -> BesselValues] : jv[0] = 1 /\ jv[MaxOrder] = 0}

SpectrumBounds == {<<a, b>> : a \in 0..2, b \in 0..2}

Cutoffs == {0 - 1, 0, 1, 3}

DtValues == (0 - 1)..MaxDt

\* a timestep check that lets dt = 0 through
DtRejectedNegativeOnly(dt) == dt < 0

\* SolverBase.__init__: if dt <= 0: raise InvalidValueError
DtRejected(dt) == dt <= 0

\* expression.time_dependent / hamiltonian.time_dependent
GeneratorTimeDependent(kind, generator) ==
    IF kind = "chebychev" THEN ExprTimeDependent(generator)
    ELSE TimeDependent(generator)

\* a truncation test that forgets the minimum order
StopSeriesAnyOrder(c, n, cutoff) == Abs(c) < cutoff

\* if abs(c) < cutoff and n > 2: break
StopSeries(c, n, cutoff) == Abs(c) < cutoff /\ n > 2

RECURSIVE CoeffLoop(_, _, _, _)
\* for n in itertools.count(1): c = 2 * jv(n, alpha); coeffs.append(c); break?
CoeffLoop(coeffs, n, jv, cutoff) ==
    LET c == 2 * jv[n]
        appended == Append(coeffs, c)
    IN IF StopSeries(c, n, cutoff) THEN appended
       ELSE CoeffLoop(appended, n + 1, jv, cutoff)

\* self._coeffs: [j0(alpha)] followed by the loop's coefficients
Coefficients(jv, cutoff) == CoeffLoop(<<jv[0]>>, 1, jv, cutoff)

\* e^(-i/2) for the ChebychevSolver, e^(-1/2) for the RelaxationSolver
ExpUnit(kind) == IF kind = "chebychev" THEN Cx(3, 5) ELSE Cx(2, 0)

\* self._prefactor = e ** (-1j * (a + b) / 2 * dt), or without the 1j
Prefactor(kind, spectrum, dt) ==
    CPow(ExpUnit(kind), ((spectrum[1] + spectrum[2]) * dt) % 60)

\* ChebychevSolver.__init__ / RelaxationSolver.__init__
NewSolver(kind, generator, dt, spectrum, cutoff, jv) ==
    IF DtRejected(dt) THEN [outcome |-> "InvalidValueError", result |-> "none"]
    ELSE IF spectrum[2] <= spectrum[1]
    THEN [outcome |-> "InvalidValueError", result |-> "none"]
    ELSE IF cutoff <= 0 THEN [outcome |-> "InvalidValueError", result |-> "none"]
    ELSE IF GeneratorTimeDependent(kind, generator)
    THEN [outcome |-> "InvalidValueError", result |-> "none"]
    ELSE [outcome |-> "ok",
          result |-> [kind |-> kind, generator |-> generator, dt |-> dt,
                      spec_min |-> spectrum[1],
                      spec_range |-> spectrum[2] - spectrum[1],
                      alpha2 |-> (spectrum[2] - spectrum[1]) * dt,
                      prefactor |-> Prefactor(kind, spectrum, dt),
                      coeffs |-> Coefficients(jv, cutoff)]]

\* the order property: len(self._coeffs) - 1
Order(s) == Len(s.coeffs) - 1

\* number * State
SMul(c, state) == State(state.grid, TScale(c, state.data))

\* self._expression.apply(state, t=0.0) / self._hamiltonian.apply(state, t=0.0)
GeneratorApply(s, state) ==
    IF s.kind = "chebychev" THEN ExprApplyResult(s.generator, state, 0)
    ELSE OperatorApplyResult(s.generator, state, 0)

\* factor1 = 2.0 / self._spec_range
Factor1(s) == Cx(2 * RInv(s.spec_range), 0)

\* factor2 = (2.0 / self._spec_range * self._spec_min + 1), times -1j for Chebychev
Factor2(s) ==
    LET real == Cx(2 * RInv(s.spec_range) * s.spec_min + 1, 0)
    IN IF s.kind = "chebychev" THEN CMul(CMinusI, real) ELSE real

\* F(value): the value of an intermediate result is computed once and then used
With(value, F(_)) == CHOOSE r \in {F(x) : x \in {value}} : TRUE

\* _apply_normalized: factor1 * h_input - factor2 * state
ApplyNormalized(s, state) ==
    With(GeneratorApply(s, state),
         LAMBDA h :
            IF h.outcome # "ok" THEN [outcome |-> h.outcome, result |-> "none"]
            ELSE StateArith("sub", SMul(Factor1(s), h.result),
                            SMul(Factor2(s), state)))

\* term_minus1 = +-self._apply_normalized(state)
FirstTerm(s, normalized) ==
    IF s.kind = "chebychev" THEN normalized ELSE SMul(Cx(0 - 1, 0), normalized)

\* term = 2 * normalized + term_minus2, or -2 * normalized - term_minus2
NextTerm(s, normalized, term_minus2) ==
    IF s.kind = "chebychev"
    THEN StateArith("add", SMul(Cx(2, 0), normalized), term_minus2).result
    ELSE StateArith("sub", SMul(Cx(0 - 2, 0), normalized), term_minus2).result

\* a loop body that keeps the two retained terms as they were
AccumulateNoShift(s, n, v, term) ==
    [v EXCEPT
       !.result = With(SMul(Cx(s.coeffs[n + 1], 0), term),
                       LAMBDA scaled : StateArith("add", v.result, scaled).result),
       !.terms = Append(@, term)]

\* result += self._coeffs[n] * term; term_minus2 = term_minus1; term_minus1 = term
Accumulate(s, n, v, term) ==
    [v EXCEPT
       !.result = With(SMul(Cx(s.coeffs[n + 1], 0), term),
                       LAMBDA scaled : StateArith("add", v.result, scaled).result),
       !.terms = Append(@, term),
       !.term_minus2 = v.term_minus1,
       !.term_minus1 = term]

\* one pass of the loop body `for n in range(2, len(self._coeffs))` on the loop
\* variables v: the running result, term_minus2 and term_minus1, with the
\* polynomial terms so far and the (state, t) pairs handed to the generator
StepBody(s, n, v) ==
    With(ApplyNormalized(s, v.term_minus1),
         LAMBDA an :
            With([v EXCEPT !.applied = Append(@, [state |-> v.term_minus1, t |-> 0])],
                 LAMBDA va :
                    IF an.outcome # "ok"
                    THEN [va EXCEPT !.outcome = an.outcome, !.result = "none"]
                    ELSE With(NextTerm(s, an.result, v.term_minus2),
                              LAMBDA term : Accumulate(s, n, va, term))))

RECURSIVE StepLoop(_, _, _)
\* the loop from pass n on
StepLoop(s, n, v) ==
    IF n > Order(s) \/ v.outcome # "ok" THEN v
    ELSE With(StepBody(s, n, v), LAMBDA w : StepLoop(s, n + 1, w))

\* the statements before the loop, on the value `first` of
\* self._apply_normalized(state)
StepStart(s, state, first) ==
    IF first.outcome # "ok"
    THEN [outcome |-> first.outcome, result |-> "none", terms |-> <<state>>,
          applied |-> <<[state |-> state, t |-> 0]>>,
          term_minus2 |-> state, term_minus1 |-> state]
    ELSE With(FirstTerm(s, first.result),
              LAMBDA term_minus1 :
                 [outcome |-> "ok",
                  result |-> StateArith("add", SMul(Cx(s.coeffs[1], 0), state),
                                        SMul(Cx(s.coeffs[2], 0), term_minus1)).result,
                  terms |-> <<state, term_minus1>>,
                  applied |-> <<[state |-> state, t |-> 0]>>,
                  term_minus2 |-> state, term_minus1 |-> term_minus1])

\* ChebychevSolver.step / RelaxationSolver.step: the outcome, the returned State,
\* the terms and generator applications of the run, and the input State after it
SolverStep(s, state, t) ==
    With(ApplyNormalized(s, state),
         LAMBDA first :
            With(StepStart(s, state, first),
                 LAMBDA v :
                    With(StepLoop(s, 2, v),
                         LAMBDA done :
                            [outcome |-> done.outcome,
                             result |-> IF done.outcome = "ok"
                                        THEN SMul(s.prefactor, done.result)
                                        ELSE "none",
                             terms |-> done.terms, applied |-> done.applied,
                             input |-> state])))

\* a step that uses up the coefficient it has summed first
SolverAfterStepConsuming(s, state, t) == [s EXCEPT !.coeffs = Tail(@)]

\* the solver object after step: the method assigns to no attribute of self
SolverAfterStep(s, state, t) == s

SolverExpressions ==
    {SchroedingerEquation(Pot(1, 0)), CommutatorLiouvillian(Pot(1, 0)),
     SchroedingerEquation(Td(1, 1)),
     CommutatorLiouvillian(OpSum(<<Td(1, 2), Const(1, Cx(2, 0))>>))}

SolverHamiltonians ==
    {Pot(1, 0), OpSum(<<Pot(1, 0), Const(1, Cx(2, 0))>>), Td(1, 1),
     OpProd(<<Td(1, 1), Pot(1, 0)>>)}

(***************************************************************************)
(* The transformations of PlaneWaveDof and SphericalHarmonicsDof.  numpy's *)
(* fft, ifft, fftshift and ifftshift act on the 1-D fibers along an axis;  *)
(* swapaxes and tensordot are carried out on the row-major data.  The root *)
(* of unity exp(-2 pi i / n) is an element of order n and norm 1, which    *)
(* exists with a real square root of n for n = 3 and n = 4.                *)
(***************************************************************************)
RECURSIVE CSum(_)
CSum(q) == IF q = <<>> THEN CZero ELSE CAdd(Head(q), CSum(Tail(q)))

\* exp(-2 pi i / n)
Omega(n) == IF n = 3 THEN Cx(5, 3) ELSE CMinusI

\* the real square root of n
RSqrt(n) == CHOOSE y \in 1..5 : Fp(y * y) = Fp(n)

\* w^m for w of norm 1, where 1/w = conj(w)
UnitPow(w, m) == IF m >= 0 THEN CPow(w, m) ELSE CPow(CConj(w), 0 - m)

\* numpy's reading of an axis argument
NormalizeAxis(data, index) ==
    (IF index < 0 THEN index + Len(data.shape) ELSE index) + 1

Stride(shape, axis) == Prod(SubSeq(shape, axis + 1, Len(shape)))

\* the 0-based indices of the flat position k
MultiIndex(shape, k) == [a \in 1..Len(shape) |-> AxisIndex(shape, a, k)]

RECURSIVE FlatFrom(_, _, _)
FlatFrom(shape, idx, a) ==
    IF a > Len(shape) THEN 0
    ELSE idx[a] * Stride(shape, a) + FlatFrom(shape, idx, a + 1)

\* the flat position of 0-based indices
FlatPos(shape, idx) == 1 + FlatFrom(shape, idx, 1)

\* the 1-D fiber of a along `axis` through the flat position k
Fiber(a, axis, k) ==
    [i \in 1..a.shape[axis] |->
        a.vals[k + (i - 1 - AxisIndex(a.shape, axis, k)) * Stride(a.shape, axis)]]

\* the 1-D kernel F applied to every fiber along `axis`
AlongAxis(F(_), a, axis) ==
    Tensor(a.shape,
           [k \in 1..Len(a.vals) |->
               F(Fiber(a, axis, k))[AxisIndex(a.shape, axis, k) + 1]])

\* np.fft.fft on one fiber
Fft(x) ==
    [k \in 1..Len(x) |->
        CSum([j \in 1..Len(x) |->
                 CMul(x[j], CPow(Omega(Len(x)), ((j - 1) * (k - 1)) % Len(x)))])]

\* np.fft.ifft on one fiber
Ifft(x) ==
    [j \in 1..Len(x) |->
        CMul(Cx(RInv(Len(x)), 0),
             CSum([k \in 1..Len(x) |->
                      CMul(x[k], CPow(CConj(Omega(Len(x))),
                                      ((j - 1) * (k - 1)) % Len(x)))]))]

\* np.fft.fftshift on one fiber: roll by n // 2
FftShift(x) ==
    [k \in 1..Len(x) |-> x[((k - 1 - (Len(x) \div 2)) % Len(x)) + 1]]

\* np.fft.ifftshift on one fiber: roll by -(n // 2)
IfftShift(x) ==
    [k \in 1..Len(x) |-> x[((k - 1 + (Len(x) \div 2)) % Len(x)) + 1]]

\* PlaneWaveDof(xmin, xmax, n); unit = exp(-i * (2 pi / (xmax - xmin)) * xmin),
\* sqrt_dx = sqrt((xmax - xmin) / n)
PlaneWaveDof(n, unit, sqrt_dx) ==
    [kind |-> "planewave", size |-> n, unit |-> unit, sqrt_dx |-> sqrt_dx]

\* SphericalHarmonicsDof: the square roots of the quadrature weights and the
\* harmonics[k, l] at the quadrature points
SphericalHarmonicsDof(sqrt_weights, harmonics) ==
    [kind |-> "spherical", size |-> Len(sqrt_weights),
     sqrt_weights |-> sqrt_weights,
     harmonics |-> Tensor(<<Len(sqrt_weights), Len(sqrt_weights)>>,
                          [k \in 1..Len(harmonics) |-> Cx(harmonics[k], 0)])]

\* self._sqrt_weights
SqrtWeights(dof) ==
    IF dof.kind = "planewave" THEN [k \in 1..dof.size |-> Cx(dof.sqrt_dx, 0)]
    ELSE [k \in 1..dof.size |-> Cx(dof.sqrt_weights[k], 0)]

\* self._phase = exp(-1j * fbr * xmin) / sqrt(n), fbr[k] = (2 pi / L) (k - n // 2)
Phase(dof) ==
    [k \in 1..dof.size |->
        CMul(UnitPow(dof.unit, (k - 1) - (dof.size \div 2)),
             Cx(RInv(RSqrt(dof.size)), 0))]

\* a conjugate phase without the factor n
ConjPhaseUnscaled(dof) == [k \in 1..dof.size |-> CConj(Phase(dof)[k])]

\* self._conj_phase = n * conj(self._phase)
ConjPhase(dof) ==
    [k \in 1..dof.size |-> CMul(Cx(dof.size, 0), CConj(Phase(dof)[k]))]

\* data / conversion_factor
ToDvr(dof, data, index) ==
    TScaleAxis([k \in 1..dof.size |-> Cx(RInv(SqrtWeights(dof)[k][1]), 0)],
               NormalizeAxis(data, index), data)

\* data * conversion_factor
FromDvr(dof, data, index) ==
    TScaleAxis(SqrtWeights(dof), NormalizeAxis(data, index), data)

\* PlaneWaveDof.to_fbr
PlaneWaveToFbr(dof, data, index, is_ket) ==
    IF is_ket
    THEN With(AlongAxis(Fft, data, NormalizeAxis(data, index)),
              LAMBDA f :
                 With(AlongAxis(FftShift, f, NormalizeAxis(data, index)),
                      LAMBDA transformed :
                         TScaleAxis(Phase(dof), NormalizeAxis(data, index),
                                    transformed)))
    ELSE With(AlongAxis(Ifft, data, NormalizeAxis(data, index)),
              LAMBDA f :
                 With(AlongAxis(FftShift, f, NormalizeAxis(data, index)),
                      LAMBDA transformed :
                         TScaleAxis(ConjPhase(dof), NormalizeAxis(data, index),
                                    transformed)))

\* PlaneWaveDof.from_fbr
PlaneWaveFromFbr(dof, data, index, is_ket) ==
    IF is_ket
    THEN With(TScaleAxis(ConjPhase(dof), NormalizeAxis(data, index), data),
              LAMBDA untransformed :
                 With(AlongAxis(IfftShift, untransformed, NormalizeAxis(data, index)),
                      LAMBDA shifted :
                         AlongAxis(Ifft, shifted, NormalizeAxis(data, index))))
    ELSE With(TScaleAxis(Phase(dof), NormalizeAxis(data, index), data),
              LAMBDA untransformed :
                 With(AlongAxis(IfftShift, untransformed, NormalizeAxis(data, index)),
                      LAMBDA shifted :
                         AlongAxis(Fft, shifted, NormalizeAxis(data, index))))

SwapSeq(q, i, j) ==
    [a \in 1..Len(q) |-> IF a = i THEN q[j] ELSE IF a = j THEN q[i] ELSE q[a]]

\* np.swapaxes(a, i, j), axes 1-based
SwapAxes(a, i, j) ==
    Tensor(SwapSeq(a.shape, i, j),
           [k \in 1..Len(a.vals) |->
               a.vals[FlatPos(a.shape,
                              SwapSeq(MultiIndex(SwapSeq(a.shape, i, j), k), i, j))]])

\* np.tensordot(m, a, axes=(m_axis, 0)) for a matrix m, m_axis 0 or 1
TensorDot(m, a, m_axis) ==
    LET rest == Prod(Tail(a.shape))
        out == m.shape[2 - m_axis]
    IN Tensor(<<out>> \o Tail(a.shape),
              [p \in 1..(out * rest) |->
                  CSum([k \in 1..Head(a.shape) |->
                           CMul(IF m_axis = 0
                                THEN m.vals[(k - 1) * m.shape[2] + ((p - 1) \div rest) + 1]
                                ELSE m.vals[((p - 1) \div rest) * m.shape[2] + k],
                                a.vals[(k - 1) * rest + ((p - 1) % rest) + 1])])])

\* self._fbr2weighted = self.from_dvr(harmonics, 0)
FbrToWeighted(dof) == FromDvr(dof, dof.harmonics, 0)

\* the contraction of both spherical-harmonics transformations
SphericalContract(dof, data, index, m_axis) ==
    With(SwapAxes(data, 1, NormalizeAxis(data, index)),
         LAMBDA swapped_data :
            With(TensorDot(FbrToWeighted(dof), swapped_data, m_axis),
                 LAMBDA result : SwapAxes(result, 1, NormalizeAxis(data, index))))

\* SphericalHarmonicsDof.to_fbr: tensordot(..., axes=(0, 0))
SphericalToFbr(dof, data, index, is_ket) == SphericalContract(dof, data, index, 0)

\* SphericalHarmonicsDof.from_fbr: tensordot(..., axes=(1, 0))
SphericalFromFbr(dof, data, index, is_ket) == SphericalContract(dof, data, index, 1)

\* the four transformations of a DOF, by name
Transform(name, dof, data, index, is_ket) ==
    CASE name = "to_dvr" -> ToDvr(dof, data, index)
      [] name = "from_dvr" -> FromDvr(dof, data, index)
      [] name = "to_fbr" ->
           IF dof.kind = "planewave" THEN PlaneWaveToFbr(dof, data, index, is_ket)
           ELSE SphericalToFbr(dof, data, index, is_ket)
      [] OTHER ->
           IF dof.kind = "planewave" THEN PlaneWaveFromFbr(dof, data, index, is_ket)
           ELSE SphericalFromFbr(dof, data, index, is_ket)

TransformDofs ==
    {PlaneWaveDof(3, Cx(3, 5), 2), PlaneWaveDof(4, Cx(5, 3), 3),
     SphericalHarmonicsDof(<<2, 3>>, <<7, 8, 2, 1>>)}

\* the shapes of the tensors handed to a DOF of size n
TransformShapes(n) == {<<n>>, <<3, n>>, <<2, n, 2>>, <<n, n>>}

\* the tensor e_k and the seeded tensors of a shape
TransformInputs(shape) ==
    {Tensor(shape, [j \in 1..Prod(shape) |-> IF j = k THEN COne ELSE CZero]) :
        k \in 1..Prod(shape)}
    \cup {Tensor(shape, MkVals(Prod(shape), seed)) : seed \in 1..MaxSeed}

\* the valid axis arguments of a shape for a DOF of size n
ValidIndices(shape, n) ==
    {i \in (0 - Len(shape))..(Len(shape) - 1) :
        shape[(IF i < 0 THEN i + Len(shape) ELSE i) + 1] = n}

(***************************************************************************)
(* The operations.  `call` records the call in progress: its arguments,    *)
(* whether it returned ("ok") or which exception it raised, its result and *)
(* the operator primitives it invoked.  Return ends the call.              *)
(***************************************************************************)
NoCall == [fn |-> "none"]

NoSolver == [kind |-> "none"]

NoRun == [dof |-> "none"]

NoGen == [op |-> [kind |-> "none"], generator_log |-> <<>>, applications |-> <<>>]

\* no list object and no composite operator built from one
NoHeap == [list |-> <<>>, passed |-> "none", obj |-> [kind |-> "none"], built |-> <<>>]

Init ==
    /\ call = NoCall
    /\ solver = NoSolver
    /\ stepHist = <<>>
    /\ dofRun = NoRun
    /\ genRun = NoGen
    /\ heap = NoHeap

Return ==
    /\ call # NoCall
    /\ call' = NoCall
    /\ UNCHANGED <<solver, stepHist, dofRun, genRun, heap>>

DoOperatorApply ==
    /\ call = NoCall
    /\ \E op \in Operators, s \in States, t \in Times :
        call' = [fn |-> "OperatorBase.apply", op |-> op, state |-> s, t |-> t,
                 ret |-> OperatorApplyResult(op, s, t)]
    /\ UNCHANGED <<solver, stepHist, dofRun, genRun, heap>>

DoStateArith ==
    /\ call = NoCall
    /\ \E arith \in {"add", "sub"}, s1 \in States, s2 \in States :
        call' = [fn |-> "State.arith", arith |-> arith, self |-> s1, other |-> s2,
                 ret |-> StateArith(arith, s1, s2)]
    /\ UNCHANGED <<solver, stepHist, dofRun, genRun, heap>>

DoExprApply ==
    /\ call = NoCall
    /\ \E expr \in Expressions, s \in States, t \in Times :
        call' = [fn |-> "Expression.apply", expr |-> expr, state |-> s, t |-> t,
                 ret |-> ExprApplyResult(expr, s, t)]
    /\ UNCHANGED <<solver, stepHist, dofRun, genRun, heap>>

DoNewComposite ==
    /\ call = NoCall
    /\ \E kind \in {"sum", "prod"}, ops \in SeqsUpTo(MemberOps, MaxMembers) :
        call' = [fn |-> "Composite.__init__", kind |-> kind, ops |-> ops,
                 ret |-> NewComposite(kind, ops)]
    /\ UNCHANGED <<solver, stepHist, dofRun, genRun, heap>>

DoOverload ==
    /\ call = NoCall
    /\ \E kind \in {"sum", "prod"}, self \in MemberOps :
        \/ \E other \in MemberOps :
             call' = [fn |-> "Operator.overload", kind |-> kind,
                      ops |-> <<self, other>>,
                      ret |-> Overload(kind, self, other, TRUE)]
        \/ \E other \in Scalars :
             call' = [fn |-> "Operator.overload", kind |-> kind,
                      ops |-> <<self, Const(self.grid, other)>>,
                      ret |-> Overload(kind, self, other, FALSE)]
    /\ UNCHANGED <<solver, stepHist, dofRun, genRun, heap>>

Next ==
    \/ DoOperatorApply
    \/ DoStateArith
    \/ DoExprApply
    \/ DoNewComposite
    \/ DoOverload
    \/ Return

Spec == Init /\ [][Next]_vars

(***************************************************************************)
(* Building a solver.  `solver` is the solver object of the behaviour,     *)
(* NoSolver until a constructor call has returned one.                     *)
(***************************************************************************)
NewSolverCall(kind, generator, dt, spectrum, cutoff, jv) ==
    [fn |-> "Solver.__init__", kind |-> kind, generator |-> generator, dt |-> dt,
     spectrum |-> spectrum, cutoff |-> cutoff, jv |-> jv,
     ret |-> NewSolver(kind, generator, dt, spectrum, cutoff, jv)]

DoNewChebychevSolver ==
    /\ call = NoCall
    /\ solver = NoSolver
    /\ \E expression \in SolverExpressions, dt \in DtValues,
          spectrum \in SpectrumBounds, cutoff \in Cutoffs, jv \in BesselTables :
        /\ call' = NewSolverCall("chebychev", expression, dt, spectrum, cutoff, jv)
        /\ solver' = IF call'.ret.outcome = "ok" THEN call'.ret.result ELSE NoSolver
    /\ UNCHANGED <<stepHist, dofRun, genRun, heap>>

DoNewRelaxationSolver ==
    /\ call = NoCall
    /\ solver = NoSolver
    /\ \E hamiltonian \in SolverHamiltonians, dt \in DtValues,
          spectrum \in SpectrumBounds, cutoff \in Cutoffs, jv \in BesselTables :
        /\ call' = NewSolverCall("relaxation", hamiltonian, dt, spectrum, cutoff, jv)
        /\ solver' = IF call'.ret.outcome = "ok" THEN call'.ret.result ELSE NoSolver
    /\ UNCHANGED <<stepHist, dofRun, genRun, heap>>

SolverNext ==
    \/ DoNewChebychevSolver
    \/ DoNewRelaxationSolver
    \/ Return

SolverSpec == Init /\ [][SolverNext]_vars

(***************************************************************************)
(* Stepping a solver.  stepHist keeps the first step call made on the      *)
(* solver and the number of calls made so far.                             *)
(***************************************************************************)
MaxSteps == 3

\* Bessel tables of the solvers that are stepped
StepTables == {jv \in BesselTables : \A n \in 0..MaxOrder : jv[n] >= 0}

StepSolvers ==
    {NewSolver(kind, generator, 1, <<0, 2>>, 1, jv).result :
        kind \in {"chebychev"}, jv \in StepTables,
        generator \in {SchroedingerEquation(Pot(1, 0)),
                       CommutatorLiouvillian(Pot(1, 0))}}
    \cup {NewSolver(kind, generator, 1, <<1, 2>>, 1, jv).result :
        kind \in {"relaxation"}, jv \in StepTables,
        generator \in {Pot(1, 0), OpSum(<<Pot(1, 0), Const(1, Cx(2, 0))>>)}}

StepStates ==
    {State(1, Tensor(<<2>>, MkVals(2, 1))), State(1, Tensor(<<2>>, MkVals(2, 2))),
     State(1, Tensor(<<2, 2>>, MkVals(4, 1))),
     State(1, Tensor(<<3>>, MkVals(3, 1))),
     State(2, Tensor(<<2>>, MkVals(2, 1)))}

\* the step calls made on the solver so far
StepCalls == IF stepHist = <<>> THEN 0 ELSE stepHist[1].calls

StepInit ==
    /\ call = NoCall
    /\ solver \in StepSolvers
    /\ stepHist = <<>>
    /\ dofRun = NoRun
    /\ genRun = NoGen
    /\ heap = NoHeap

DoStep ==
    /\ call = NoCall
    /\ solver # NoSolver
    /\ StepCalls < MaxSteps
    /\ \E state \in StepStates, t \in Times :
        LET r == SolverStep(solver, state, t)
        IN /\ call' = [fn |-> "Solver.step", self |-> solver, state |-> state,
                       t |-> t, ret |-> r]
           /\ solver' = SolverAfterStep(solver, state, t)
           /\ stepHist' = IF stepHist = <<>>
                          THEN <<[state |-> state, t |-> t, ret |-> r, calls |-> 1]>>
                          ELSE <<[stepHist[1] EXCEPT !.calls = @ + 1]>>
    /\ UNCHANGED <<dofRun, genRun, heap>>

StepNext ==
    \/ DoStep
    \/ Return

StepSpec == StepInit /\ [][StepNext]_vars

(***************************************************************************)
(* Transforming a tensor.  dofRun holds the DOF, the axis and is_ket the    *)
(* caller works with, the tensor it started from, the tensor it holds now   *)
(* and the transformations applied so far.                                  *)
(***************************************************************************)
MaxTrail == 2

DofInit ==
    /\ call = NoCall
    /\ solver = NoSolver
    /\ stepHist = <<>>
    /\ genRun = NoGen
    /\ heap = NoHeap
    /\ \E dof \in TransformDofs, is_ket \in BOOLEAN :
         \E shape \in TransformShapes(dof.size) :
            \E index \in ValidIndices(shape, dof.size), d \in TransformInputs(shape) :
               dofRun = [dof |-> dof, index |-> index, is_ket |-> is_ket,
                         input |-> d, data |-> d, trail |-> <<>>]

Transformed(name) ==
    [dofRun EXCEPT
       !.data = Transform(name, dofRun.dof, dofRun.data, dofRun.index, dofRun.is_ket),
       !.trail = Append(@, name)]

DoToFbr ==
    /\ Len(dofRun.trail) < MaxTrail
    /\ dofRun' = Transformed("to_fbr")
    /\ UNCHANGED <<call, solver, stepHist, genRun, heap>>

DoFromFbr ==
    /\ Len(dofRun.trail) < MaxTrail
    /\ dofRun' = Transformed("from_fbr")
    /\ UNCHANGED <<call, solver, stepHist, genRun, heap>>

DoToDvr ==
    /\ Len(dofRun.trail) < MaxTrail
    /\ dofRun' = Transformed("to_dvr")
    /\ UNCHANGED <<call, solver, stepHist, genRun, heap>>

DoFromDvr ==
    /\ Len(dofRun.trail) < MaxTrail
    /\ dofRun' = Transformed("from_dvr")
    /\ UNCHANGED <<call, solver, stepHist, genRun, heap>>

DofNext ==
    \/ DoToFbr
    \/ DoFromFbr
    \/ DoToDvr
    \/ DoFromDvr

DofSpec == DofInit /\ [][DofNext]_vars

(***************************************************************************)
(* Operator algebra.  An operator is built by repeated use of + and *: an  *)
(* operand is a leaf operator, a number, or the operator the previous      *)
(* overload returned.  A primitive of the built operator is then called    *)
(* on raw coefficients of the matching shape.                              *)
(***************************************************************************)
MaxFactors == 3

FactorOps == {Td(1, 2), Const(1, Cx(2, 0)), Pot(1, 0)}

RECURSIVE LeavesOf(_)
\* the leaf operators of an operator, through sums and products, first to last
Leaves(op) == IF op.kind \in {"sum", "prod"} THEN LeavesOf(op.ops) ELSE <<op>>

LeavesOf(ops) ==
    IF ops = <<>> THEN <<>> ELSE Leaves(Head(ops)) \o LeavesOf(Tail(ops))

\* the operator the call in progress built with + or *
Built ==
    IF call.fn = "OperatorBase.overload" /\ call.ret.outcome = "ok"
    THEN {call.ret.result} ELSE {}

AlgebraCall(kind, self, other, otherIsOperator) ==
    [fn |-> "OperatorBase.overload", kind |-> kind, self |-> self, other |-> other,
     ret |-> Overload(kind, self, other, otherIsOperator)]

\* self + other and self * other (OperatorBase.__add__, OperatorBase.__mul__)
DoArithmetic ==
    /\ \E kind \in {"sum", "prod"}, self \in FactorOps \cup Built :
        \/ \E other \in FactorOps \cup Built :
             /\ Len(Leaves(self)) + Len(Leaves(other)) <= MaxFactors
             /\ call' = AlgebraCall(kind, self, other, TRUE)
        \/ \E other \in Scalars :
             /\ Len(Leaves(self)) + 1 <= MaxFactors
             /\ call' = AlgebraCall(kind, self, other, FALSE)
    /\ UNCHANGED <<solver, stepHist, dofRun, genRun, heap>>

\* the raw coefficient arrays of the shape a primitive works on
PrimitiveInputs(g, prim) ==
    {s.data : s \in {x \in States :
                        /\ x.grid = g
                        /\ IF prim = "wf" THEN IsWaveFunction(x)
                                          ELSE IsDensityOperator(x)}}

\* op.apply_to_wave_function(data, t), op.apply_from_left(data, t) and
\* op.apply_from_right(data, t) of the operator just built
DoPrimitive ==
    /\ Built # {}
    /\ \E op \in Built, prim \in {"wf", "left", "right"}, t \in Times :
        \E data \in PrimitiveInputs(op.grid, prim) :
            call' = [fn |-> "OperatorBase.primitive", op |-> op, prim |-> prim,
                     data |-> data, t |-> t, ret |-> ApplyPrim(op, prim, data, t)]
    /\ UNCHANGED <<solver, stepHist, dofRun, genRun, heap>>

\* reading op.time_dependent of the operator just built
DoTimeDependent ==
    /\ Built # {}
    /\ \E op \in Built :
        call' = [fn |-> "OperatorBase.time_dependent", op |-> op,
                 ret |-> TimeDependent(op)]
    /\ UNCHANGED <<solver, stepHist, dofRun, genRun, heap>>

AlgebraNext ==
    \/ DoArithmetic
    \/ DoPrimitive
    \/ DoTimeDependent

AlgebraSpec == Init /\ [][AlgebraNext]_vars

(***************************************************************************)
(* Sums of expressions.  An ExpressionSum holds its member list and the    *)
(* time_dependent flag that its constructor computed.                      *)
(***************************************************************************)
MaxSummands == 3

ExpressionSum(exprs, td) ==
    [kind |-> "exprsum", exprs |-> exprs, time_dependent |-> td]

\* a flag taken from the last summand alone
TdValsLastOnly(exprs) == ExprTimeDependent(exprs[Len(exprs)])

\* td_vals = [expr.time_dependent for expr in expressions]; any(td_vals)
TdValsAny(exprs) == \E i \in 1..Len(exprs) : ExprTimeDependent(exprs[i])

\* ExpressionSum.__init__
NewExpressionSum(exprs) ==
    IF exprs = <<>> THEN [outcome |-> "InvalidValueError", result |-> "none"]
    ELSE [outcome |-> "ok", result |-> ExpressionSum(exprs, TdValsAny(exprs))]

\* a running result that starts from the input state
SumStartFromState(state) == state

\* result = State(state.grid, np.zeros(state.data.shape))
SumStart(state) == State(state.grid, TZeros(state.data.shape))

RECURSIVE ExprApply(_, _, _)
RECURSIVE ExprSumFold(_, _, _, _)

\* expression.apply(state, t) of any expression: the outcome, the result, the
\* operator primitives invoked and, for a sum, the (member, state, t) of every
\* member application
ExprApply(expr, state, t) ==
    IF expr.kind = "exprsum"
    THEN ExprSumFold(expr.exprs, state, t,
                     [outcome |-> "ok", result |-> SumStart(state),
                      log |-> <<>>, members |-> <<>>])
    ELSE ExprApplyResult(expr, state, t)

\* for expression in self._expressions: result = result + expression.apply(state, t)
ExprSumFold(exprs, state, t, acc) ==
    IF exprs = <<>> THEN acc
    ELSE With(ExprApply(Head(exprs), state, t),
              LAMBDA r :
                 With(Append(acc.members,
                             [expr |-> Head(exprs), state |-> state, t |-> t]),
                      LAMBDA members :
                         IF r.outcome # "ok"
                         THEN [outcome |-> r.outcome, result |-> "none",
                               log |-> acc.log \o r.log, members |-> members]
                         ELSE With(StateArith("add", acc.result, r.result),
                                   LAMBDA sum :
                                      IF sum.outcome # "ok"
                                      THEN [outcome |-> sum.outcome, result |-> "none",
                                            log |-> acc.log \o r.log,
                                            members |-> members]
                                      ELSE ExprSumFold(Tail(exprs), state, t,
                                                       [outcome |-> "ok",
                                                        result |-> sum.result,
                                                        log |-> acc.log \o r.log,
                                                        members |-> members]))))

SumExpressions ==
    {SchroedingerEquation(Td(1, 2)), SchroedingerEquation(Pot(1, 0)),
     CommutatorLiouvillian(Pot(1, 0)), OneSidedLiouvillian(Td(1, 2), "RIGHT"),
     SchroedingerEquation(Const(2, Cx(2, 0)))}

SumStates ==
    {x \in States : x.grid \in {1, 2} /\ x.data.shape \in {<<2>>, <<2, 2>>, <<3>>}}

RECURSIVE SummandsOf(_)
\* the expressions of a sum that are not sums themselves, first to last
Summands(expr) ==
    IF expr.kind = "exprsum" THEN SummandsOf(expr.exprs) ELSE <<expr>>

SummandsOf(exprs) ==
    IF exprs = <<>> THEN <<>> ELSE Summands(Head(exprs)) \o SummandsOf(Tail(exprs))

\* the ExpressionSum the call in progress built
BuiltSum ==
    IF call.fn \in {"ExpressionBase.__add__", "ExpressionSum.__init__"}
       /\ call.ret.outcome = "ok"
    THEN {call.ret.result} ELSE {}

\* self + other (ExpressionBase.__add__)
DoExprAdd ==
    /\ call = NoCall \/ BuiltSum # {}
    /\ \E self \in SumExpressions \cup BuiltSum, other \in SumExpressions \cup BuiltSum :
        /\ Len(Summands(self)) + Len(Summands(other)) <= MaxSummands
        /\ call' = [fn |-> "ExpressionBase.__add__", exprs |-> <<self, other>>,
                    ret |-> NewExpressionSum(<<self, other>>)]
    /\ UNCHANGED <<solver, stepHist, dofRun, genRun, heap>>

\* ExpressionSum(expressions) with a list
DoNewExpressionSum ==
    /\ call = NoCall
    /\ \E exprs \in SeqsUpTo(SumExpressions, MaxSummands) :
        call' = [fn |-> "ExpressionSum.__init__", exprs |-> exprs,
                 ret |-> NewExpressionSum(exprs)]
    /\ UNCHANGED <<solver, stepHist, dofRun, genRun, heap>>

\* reading the time_dependent attribute of the sum just built
DoSumTimeDependent ==
    /\ BuiltSum # {}
    /\ \E expr \in BuiltSum :
        call' = [fn |-> "ExpressionSum.time_dependent", expr |-> expr,
                 ret |-> ExprTimeDependent(expr)]
    /\ UNCHANGED <<solver, stepHist, dofRun, genRun, heap>>

\* apply(state, t) of the sum just built
DoSumApply ==
    /\ BuiltSum # {}
    /\ \E expr \in BuiltSum, s \in SumStates, t \in Times :
        call' = [fn |-> "ExpressionSum.apply", expr |-> expr, state |-> s, t |-> t,
                 ret |-> ExprApply(expr, s, t)]
    /\ UNCHANGED <<solver, stepHist, dofRun, genRun, heap>>

SumNext ==
    \/ DoExprAdd
    \/ DoNewExpressionSum
    \/ DoSumTimeDependent
    \/ DoSumApply
    \/ Return

SumSpec == Init /\ [][SumNext]_vars

(***************************************************************************)
(* Density operators from wave functions, and the commutator Liouvillian   *)
(* of a Hamiltonian applied to a pure density.                             *)
(***************************************************************************)
\* np.outer(ket.data, np.conj(bra.data)) reshaped to grid.operator_shape
OuterData(g, ket, bra) ==
    Tensor(OperatorShape(g),
           [k \in 1..(Len(ket.vals) * Len(bra.vals)) |->
               CMul(ket.vals[((k - 1) \div Len(bra.vals)) + 1],
                    CConj(bra.vals[((k - 1) % Len(bra.vals)) + 1]))])

\* wp.builder.direct_product(ket, bra)
DirectProduct(ket, bra) ==
    IF ~IsWaveFunction(ket) \/ ~IsWaveFunction(bra)
    THEN [outcome |-> "BadStateError", result |-> "none"]
    ELSE IF ~GridEq(ket.grid, bra.grid)
    THEN [outcome |-> "BadGridError", result |-> "none"]
    ELSE [outcome |-> "ok",
          result |-> State(ket.grid, OuterData(ket.grid, ket.data, bra.data))]

\* wp.builder.pure_density(psi)
PureDensity(psi) == DirectProduct(psi, psi)

\* the Hamiltonians on a grid: real constants and potentials, functions of
\* time (conjugated on the bra side), their sums and products
Hamiltonians(g) == {op \in Operators : op.grid = g}

DoPureDensity ==
    /\ call = NoCall
    /\ \E psi \in States :
        call' = [fn |-> "builder.pure_density", psi |-> psi, ret |-> PureDensity(psi)]
    /\ UNCHANGED <<solver, stepHist, dofRun, genRun, heap>>

\* CommutatorLiouvillian(H).apply(rho, t) on the pure density just built
DoCommutatorApply ==
    /\ call.fn = "builder.pure_density"
    /\ call.ret.outcome = "ok"
    /\ \E H \in Hamiltonians(call.psi.grid), t \in Times :
        call' = [fn |-> "CommutatorLiouvillian.apply", op |-> H, psi |-> call.psi,
                 state |-> call.ret.result, t |-> t,
                 ret |-> ExprApplyResult(CommutatorLiouvillian(H),
                                         call.ret.result, t)]
    /\ UNCHANGED <<solver, stepHist, dofRun, genRun, heap>>

LiouvilleNext ==
    \/ DoPureDensity
    \/ DoCommutatorApply
    \/ Return

LiouvilleSpec == Init /\ [][LiouvilleNext]_vars

(***************************************************************************)
(* Operators built from a generator function: Potential1D,                 *)
(* PlaneWaveFbrOperator, FbrOperator1D and the presets                     *)
(* CartesianKineticEnergy and RotationalKineticEnergy.  A grid is its DOF  *)
(* sequence here.  genRun holds the operator object of the behaviour, the  *)
(* calls made to its generator function (the argument of each call) and    *)
(* the primitives applied so far.                                          *)
(***************************************************************************)
MaxApplications == 2

GeneratedGrids ==
    {<<PlaneWaveDof(3, Cx(3, 5), 2)>>,
     <<SphericalHarmonicsDof(<<2, 3>>, <<7, 8, 2, 1>>), PlaneWaveDof(3, Cx(3, 5), 2)>>}

DofShape(dofs) == [i \in 1..Len(dofs) |-> dofs[i].size]

\* dof.dvr_points and dof.fbr_points, in units of the grid spacing
PointsOf(dof, which) ==
    IF which = "dvr" THEN [k \in 1..dof.size |-> k - 1]
    ELSE IF dof.kind = "planewave"
    THEN [k \in 1..dof.size |-> (k - 1) - (dof.size \div 2)]
    ELSE [k \in 1..dof.size |-> k - 1]

\* the generator functions handed to the constructors: x ** 2 and x + 1j
UserGenerator(gen, points) ==
    [k \in 1..Len(points) |->
        IF gen = 1 THEN Cx(points[k] * points[k], 0) ELSE Cx(points[k], 1)]

\* lambda fbr_points: fbr_points ** 2 / (2 * mass)
CartesianGenerator(mass, points) ==
    [k \in 1..Len(points) |-> Cx(points[k] * points[k] * RInv(Fp(2 * mass)), 0)]

\* lambda fbr_points: fbr_points * (fbr_points + 1) / (2 * inertia)
RotationalGenerator(inertia, points) ==
    [k \in 1..Len(points) |->
        Cx(points[k] * (points[k] + 1) * RInv(Fp(2 * inertia)), 0)]

\* one call of a generator function: its values and the record of the call
CallGenerator(gen, points) ==
    [values |-> IF gen.kind = "user" THEN UserGenerator(gen.id, points)
                ELSE IF gen.kind = "cartesian" THEN CartesianGenerator(gen.mass, points)
                ELSE RotationalGenerator(gen.inertia, points),
     log |-> <<[generator |-> gen, points |-> points]>>]

\* clip_real: np.clip on the real parts; a bound is {} for None
ClipReal(values, lower, upper) ==
    [k \in 1..Len(values) |->
        LET re == values[k][1]
            low == IF \E l \in lower : re < l THEN CHOOSE l \in lower : TRUE ELSE re
        IN Cx(IF \E u \in upper : low > u THEN CHOOSE u \in upper : TRUE ELSE low,
              values[k][2])]

\* an index counted from the front for negative values as well
KetIndexMirror(dofs, dof_index) == IF dof_index < 0 THEN 0 - dof_index - 1 ELSE dof_index

\* grid.normalize_index for an index in range
KetIndex(dofs, dof_index) == IF dof_index < 0 THEN dof_index + Len(dofs) ELSE dof_index

GeneratedOk(op, log) == [outcome |-> "ok", result |-> op, generator_log |-> log]

GeneratedError(error) ==
    [outcome |-> error, result |-> "none", generator_log |-> <<>>]

\* Potential1D.__init__
NewPotential1D(dofs, dof_index, gen, cutoff) ==
    With(CallGenerator(gen, PointsOf(dofs[KetIndex(dofs, dof_index) + 1], "dvr")),
         LAMBDA g :
            GeneratedOk([kind |-> "Potential1D", grid |-> dofs,
                         ket_index |-> KetIndex(dofs, dof_index),
                         data |-> ClipReal(g.values, {}, cutoff)],
                        g.log))

\* PlaneWaveFbrOperator.__init__
NewPlaneWaveFbrOperator(dofs, dof_index, gen, cutoff) ==
    IF dofs[KetIndex(dofs, dof_index) + 1].kind # "planewave"
    THEN GeneratedError("InvalidValueError")
    ELSE With(CallGenerator(gen, PointsOf(dofs[KetIndex(dofs, dof_index) + 1], "fbr")),
              LAMBDA g :
                 GeneratedOk([kind |-> "PlaneWaveFbrOperator", grid |-> dofs,
                              wf_index |-> dof_index,
                              ket_index |-> KetIndex(dofs, dof_index),
                              data |-> IfftShift(ClipReal(g.values,
                                                          {0 - c : c \in cutoff},
                                                          cutoff))],
                             g.log))

\* matrix = np.diagflat(fbr_values)
DiagFlat(values) ==
    Tensor(<<Len(values), Len(values)>>,
           [k \in 1..(Len(values) * Len(values)) |->
               IF (k - 1) \div Len(values) = (k - 1) % Len(values)
               THEN values[((k - 1) % Len(values)) + 1] ELSE CZero])

\* FbrOperator1D.__init__
NewFbrOperator1D(dofs, dof_index, gen, cutoff) ==
    With(CallGenerator(gen, PointsOf(dofs[KetIndex(dofs, dof_index) + 1], "fbr")),
         LAMBDA g :
            With(Transform("from_fbr", dofs[KetIndex(dofs, dof_index) + 1],
                           DiagFlat(ClipReal(g.values, {0 - c : c \in cutoff}, cutoff)),
                           0, TRUE),
                 LAMBDA half :
                    GeneratedOk([kind |-> "FbrOperator1D", grid |-> dofs,
                                 ket_index |-> KetIndex(dofs, dof_index),
                                 matrix |-> Transform("from_fbr",
                                                      dofs[KetIndex(dofs, dof_index) + 1],
                                                      half, 1, FALSE)],
                                g.log)))

\* CartesianKineticEnergy.__init__
NewCartesianKineticEnergy(dofs, dof_index, mass, cutoff) ==
    IF mass <= 0 THEN GeneratedError("InvalidValueError")
    ELSE NewPlaneWaveFbrOperator(dofs, dof_index,
                                 [kind |-> "cartesian", mass |-> mass], cutoff)

\* RotationalKineticEnergy.__init__
NewRotationalKineticEnergy(dofs, dof_index, inertia, cutoff) ==
    IF inertia <= 0 THEN GeneratedError("InvalidValueError")
    ELSE IF dofs[KetIndex(dofs, dof_index) + 1].kind # "spherical"
    THEN GeneratedError("InvalidValueError")
    ELSE NewFbrOperator1D(dofs, dof_index,
                          [kind |-> "rotational", inertia |-> inertia], cutoff)

\* the generator calls an apply_* primitive makes and those it would make if
\* it evaluated the generator again
ApplyGeneratorLogAgain(op, prim) == <<[generator |-> "again", points |-> prim]>>

\* the generator calls an apply_* primitive makes: none, the primitives work on
\* the arrays the constructor stored
ApplyGeneratorLog(op, prim) == <<>>

\* the axis (1-based) a primitive of a generated operator works along
GeneratedAxis(op, prim, data) ==
    IF prim = "right" THEN op.ket_index + Len(op.grid) + 1
    ELSE IF prim = "wf" /\ op.kind = "PlaneWaveFbrOperator"
    THEN NormalizeAxis(data, op.wf_index)
    ELSE op.ket_index + 1

\* apply_to_wave_function, apply_from_left and apply_from_right of the
\* generated operators
ApplyGenerated(op, prim, data) ==
    CASE op.kind = "Potential1D" ->
           TScaleAxis(op.data, GeneratedAxis(op, prim, data), data)
      [] op.kind = "PlaneWaveFbrOperator" ->
           With(IF prim = "right"
                THEN AlongAxis(Ifft, data, GeneratedAxis(op, prim, data))
                ELSE AlongAxis(Fft, data, GeneratedAxis(op, prim, data)),
                LAMBDA transformed :
                   With(TScaleAxis(op.data,
                                   IF prim = "right" THEN op.ket_index + Len(op.grid) + 1
                                   ELSE op.ket_index + 1,
                                   transformed),
                        LAMBDA scaled :
                           IF prim = "right"
                           THEN AlongAxis(Fft, scaled, GeneratedAxis(op, prim, data))
                           ELSE AlongAxis(Ifft, scaled, GeneratedAxis(op, prim, data))))
      [] OTHER ->
           With(SwapAxes(data, 1, GeneratedAxis(op, prim, data)),
                LAMBDA swapped :
                   With(TensorDot(op.matrix, swapped, IF prim = "right" THEN 0 ELSE 1),
                        LAMBDA result :
                           SwapAxes(result, 1, GeneratedAxis(op, prim, data))))

UserGenerators == {[kind |-> "user", id |-> i] : i \in {1, 2}}

GeneratedCutoffs == {{}, {1}}

DofIndices(dofs) == (0 - Len(dofs))..(Len(dofs) - 1)

\* what a constructor call leaves behind: the call and, if it returned, the
\* operator with the generator calls made so far
Constructed(fn, dofs, dof_index, r) ==
    /\ call' = [fn |-> fn, grid |-> dofs, dof_index |-> dof_index, ret |-> r]
    /\ genRun' = IF r.outcome = "ok"
                 THEN [op |-> r.result, generator_log |-> r.generator_log,
                       applications |-> <<>>]
                 ELSE NoGen
    /\ UNCHANGED <<solver, stepHist, dofRun, heap>>

DoNewPotential1D ==
    /\ call = NoCall /\ genRun = NoGen
    /\ \E dofs \in GeneratedGrids, gen \in UserGenerators, cutoff \in GeneratedCutoffs :
        \E dof_index \in DofIndices(dofs) :
            Constructed("Potential1D.__init__", dofs, dof_index,
                        NewPotential1D(dofs, dof_index, gen, cutoff))

DoNewPlaneWaveFbrOperator ==
    /\ call = NoCall /\ genRun = NoGen
    /\ \E dofs \in GeneratedGrids, gen \in UserGenerators, cutoff \in GeneratedCutoffs :
        \E dof_index \in DofIndices(dofs) :
            Constructed("PlaneWaveFbrOperator.__init__", dofs, dof_index,
                        NewPlaneWaveFbrOperator(dofs, dof_index, gen, cutoff))

DoNewFbrOperator1D ==
    /\ call = NoCall /\ genRun = NoGen
    /\ \E dofs \in GeneratedGrids, gen \in UserGenerators, cutoff \in GeneratedCutoffs :
        \E dof_index \in DofIndices(dofs) :
            Constructed("FbrOperator1D.__init__", dofs, dof_index,
                        NewFbrOperator1D(dofs, dof_index, gen, cutoff))

DoNewCartesianKineticEnergy ==
    /\ call = NoCall /\ genRun = NoGen
    /\ \E dofs \in GeneratedGrids, mass \in 0..2, cutoff \in GeneratedCutoffs :
        \E dof_index \in DofIndices(dofs) :
            Constructed("CartesianKineticEnergy.__init__", dofs, dof_index,
                        NewCartesianKineticEnergy(dofs, dof_index, mass, cutoff))

DoNewRotationalKineticEnergy ==
    /\ call = NoCall /\ genRun = NoGen
    /\ \E dofs \in GeneratedGrids, inertia \in 0..2, cutoff \in GeneratedCutoffs :
        \E dof_index \in DofIndices(dofs) :
            Constructed("RotationalKineticEnergy.__init__", dofs, dof_index,
                        NewRotationalKineticEnergy(dofs, dof_index, inertia, cutoff))

\* one apply_* call on the operator of the behaviour
DoApplyGenerated ==
    /\ call = NoCall
    /\ genRun.op.kind # "none"
    /\ Len(genRun.applications) < MaxApplications
    /\ \E prim \in {"wf", "left", "right"}, seed \in 1..MaxSeed, t \in Times :
        LET shape == IF prim = "wf" THEN DofShape(genRun.op.grid)
                     ELSE DofShape(genRun.op.grid) \o DofShape(genRun.op.grid)
            data == Tensor(shape, MkVals(Prod(shape), seed))
        IN /\ call' = [fn |-> "Generated.apply", op |-> genRun.op, prim |-> prim,
                       data |-> data, t |-> t,
                       ret |-> ApplyGenerated(genRun.op, prim, data)]
           /\ genRun' = [genRun EXCEPT
                           !.generator_log = @ \o ApplyGeneratorLog(genRun.op, prim),
                           !.applications = Append(@, prim)]
    /\ UNCHANGED <<solver, stepHist, dofRun, heap>>

\* the call returns; the operator stays
GeneratedReturn ==
    /\ call # NoCall
    /\ call' = NoCall
    /\ UNCHANGED <<solver, stepHist, dofRun, genRun, heap>>

GeneratedNext ==
    \/ DoNewPotential1D
    \/ DoNewPlaneWaveFbrOperator
    \/ DoNewFbrOperator1D
    \/ DoNewCartesianKineticEnergy
    \/ DoNewRotationalKineticEnergy
    \/ DoApplyGenerated
    \/ GeneratedReturn

GeneratedSpec == Init /\ [][GeneratedNext]_vars

(***************************************************************************)
(* Constructing a Grid and reading its properties.  The argument is None,  *)
(* a single DOF or a sequence of DOFs.                                     *)
(***************************************************************************)
MaxDofs == 3

GridArguments ==
    {[kind |-> "None"]}
    \cup {[kind |-> "dof", dof |-> d] : d \in 0..(MaxDofs - 1)}
    \cup {[kind |-> "sequence", dofs |-> q] : q \in SeqsUpTo(0..(MaxDofs - 1), MaxDofs)}

\* Grid.__init__: only None is rejected; a single DOF becomes [dofs], anything
\* else list(dofs)
NewGrid(arg) ==
    IF arg.kind = "None" THEN [outcome |-> "InvalidValueError", result |-> "none"]
    ELSE LET dofs == IF arg.kind = "dof" THEN <<arg.dof>> ELSE arg.dofs
         IN [outcome |-> "ok",
             result |-> [dofs |-> dofs,
                         shape |-> [i \in 1..Len(dofs) |-> DofSize(dofs[i])]]]

\* the properties shape, operator_shape, dofs and size of a Grid
GridProperty(grid, name) ==
    CASE name = "shape" -> grid.shape
      [] name = "operator_shape" -> grid.shape \o grid.shape
      [] name = "dofs" -> grid.dofs
      [] OTHER -> Prod([i \in 1..Len(grid.dofs) |-> DofSize(grid.dofs[i])])

DoNewGrid ==
    /\ call = NoCall
    /\ \E arg \in GridArguments :
        call' = [fn |-> "Grid.__init__", arg |-> arg, ret |-> NewGrid(arg)]
    /\ UNCHANGED <<solver, stepHist, dofRun, genRun, heap>>

\* reading a property of the Grid just constructed
DoGridProperty ==
    /\ call.fn = "Grid.__init__"
    /\ call.ret.outcome = "ok"
    /\ \E name \in {"shape", "operator_shape", "dofs", "size"} :
        call' = [fn |-> "Grid.property", grid |-> call.ret.result, name |-> name,
                 ret |-> GridProperty(call.ret.result, name)]
    /\ UNCHANGED <<solver, stepHist, dofRun, genRun, heap>>

GridNext ==
    \/ DoNewGrid
    \/ DoGridProperty
    \/ Return

GridSpec == Init /\ [][GridNext]_vars

(***************************************************************************)
(* Construction of a plane-wave degree of freedom.                          *)
(***************************************************************************)
MaxX == 2

MaxPoints == 3

\* the constructor arguments: the interval ends, the number of points, and
\* whether the ends are Python numbers or numpy scalars
PlaneWaveArguments ==
    [xmin : (0 - MaxX)..MaxX, xmax : (0 - MaxX)..MaxX, n : (0 - 1)..MaxPoints,
     numbers : {"float", "float64"}]

\* DofBase.__init__ on two one-dimensional arrays of lengths ndvr and nfbr
NewDofBase(ndvr, nfbr) ==
    IF ndvr = 0 \/ nfbr = 0 THEN "InvalidValueError"
    ELSE IF ndvr # nfbr THEN "InvalidValueError"
    ELSE "ok"

\* PlaneWaveDof.__init__: the two tests, then dx = (xmax - xmin) / n and
\* math.pi / dx, which divides by zero for xmin = xmax: ZeroDivisionError for
\* a Python float, inf (and nan grid points) for a numpy float64.  The
\* points n * x are kept in units of 1 / n.
NewPlaneWaveDof(arg) ==
    IF arg.xmin > arg.xmax THEN [outcome |-> "InvalidValueError", result |-> "none"]
    ELSE IF arg.n <= 0 THEN [outcome |-> "InvalidValueError", result |-> "none"]
    ELSE IF arg.xmax - arg.xmin = 0 /\ arg.numbers = "float"
         THEN [outcome |-> "ZeroDivisionError", result |-> "none"]
    ELSE IF NewDofBase(arg.n, arg.n) # "ok"
         THEN [outcome |-> NewDofBase(arg.n, arg.n), result |-> "none"]
    ELSE [outcome |-> "ok",
          result |-> [size |-> arg.n,
                      dx_times_n |-> arg.xmax - arg.xmin,
                      dvr_points_times_n |->
                          [i \in 1..arg.n |->
                              arg.n * arg.xmin + (i - 1) * (arg.xmax - arg.xmin)],
                      fbr_finite |-> arg.xmax - arg.xmin # 0]]

\* the properties size and dvr_points of a degree of freedom
PlaneWaveProperty(dof, name) ==
    IF name = "size" THEN Len(dof.dvr_points_times_n) ELSE dof.dvr_points_times_n

DoNewPlaneWaveDof ==
    /\ call = NoCall
    /\ \E arg \in PlaneWaveArguments :
        call' = [fn |-> "PlaneWaveDof.__init__", arg |-> arg,
                 ret |-> NewPlaneWaveDof(arg)]
    /\ UNCHANGED <<solver, stepHist, dofRun, genRun, heap>>

\* reading a property of the degree of freedom just constructed
DoPlaneWaveProperty ==
    /\ call.fn = "PlaneWaveDof.__init__"
    /\ call.ret.outcome = "ok"
    /\ \E name \in {"size", "dvr_points"} :
        call' = [fn |-> "DofBase.property", dof |-> call.ret.result, name |-> name,
                 ret |-> PlaneWaveProperty(call.ret.result, name)]
    /\ UNCHANGED <<solver, stepHist, dofRun, genRun, heap>>

PlaneWaveNext ==
    \/ DoNewPlaneWaveDof
    \/ DoPlaneWaveProperty
    \/ Return

PlaneWaveSpec == Init /\ [][PlaneWaveNext]_vars

(***************************************************************************)
(* Orthonormalization and projections.  The coefficients here are exact    *)
(* Gaussian integers <<re, im>>; an array divided by a square root is held *)
(* as the integer array `vals` and the radicand `over`, meaning            *)
(* vals / sqrt(over), and over = 0 stands for the nan array that numpy     *)
(* returns for a division by zero.                                         *)
(***************************************************************************)
MaxBasis == 2

ZAdd(a, b) == <<a[1] + b[1], a[2] + b[2]>>

ZSub(a, b) == <<a[1] - b[1], a[2] - b[2]>>

ZMul(a, b) == <<a[1] * b[1] - a[2] * b[2], a[1] * b[2] + a[2] * b[1]>>

ZConj(a) == <<a[1], 0 - a[2]>>

\* np.abs(z ** 2) = |z|^2
ZAbs2(a) == a[1] * a[1] + a[2] * a[2]

RECURSIVE ZSum(_)
ZSum(vals) == IF vals = <<>> THEN <<0, 0>> ELSE ZAdd(Head(vals), ZSum(Tail(vals)))

\* np.abs(u ** 2).sum()
Norm2(vals) == ZSum([k \in 1..Len(vals) |-> <<ZAbs2(vals[k]), 0>>])[1]

\* (np.conj(b) * a).sum()
Overlap(b, a) == ZSum([k \in 1..Len(a) |-> ZMul(ZConj(b[k]), a[k])])

\* the array vals / sqrt(over)
Scaled(shape, vals, over) == [shape |-> shape, vals |-> vals, over |-> over]

\* np.abs of a complex number whose modulus is an integer
ZAbs(a) == CHOOSE r \in 0..ZAbs2(a) : r * r = ZAbs2(a)

\* np.diag(np.reshape(data, (grid.size, grid.size)))
Diagonal(state) ==
    LET n == Prod(GridShape(state.grid))
    IN [k \in 1..n |-> state.data.vals[(k - 1) * n + k]]

\* _take_diagonal(...).sum(): the sum of the moduli of the diagonal
TakeDiagonalSum(state) ==
    ZSum([k \in 1..Len(Diagonal(state)) |-> <<ZAbs(Diagonal(state)[k]), 0>>])[1]

\* trace: for a wave function the square of the L2 norm, here
\* sum |vals|^2 / over, which is an integer for the unscaled inputs and for
\* the normalized results; for a density operator (unscaled) the sum of the
\* moduli of the diagonal; BadStateError otherwise
trace(state) ==
    IF IsWaveFunction(state)
    THEN IF state.data.over = 0 THEN "nan"
         ELSE Norm2(state.data.vals) \div state.data.over
    ELSE IF IsDensityOperator(state) THEN TakeDiagonalSum(state)
    ELSE "BadStateError"

NormalizeKeep(u) == u

\* _normalize: u / math.sqrt(np.abs(u ** 2).sum())
Normalize(u) == Scaled(u.shape, u.vals, Norm2(u.vals))

\* a - overlap * b for a = v / sqrt(Nv) and b = w / sqrt(Nw), both
\* normalized: (Nw * v - <w, v> * w) / (Nw * sqrt(Nv))
ProjectOut(a, b) ==
    LET ov == Overlap(b.vals, a.vals)
    IN Scaled(a.shape,
              [k \in 1..Len(a.vals) |->
                  ZSub(ZMul(<<b.over, 0>>, a.vals[k]), ZMul(ov, b.vals[k]))],
              b.over * b.over * a.over)

\* the inner loop of orthonormalize over the vectors accepted so far
RECURSIVE GramSchmidt(_, _)
GramSchmidt(a, result) ==
    IF result = <<>> THEN a
    ELSE GramSchmidt(ProjectOut(Normalize(a), Head(result)), Tail(result))

\* the outer loop of orthonormalize
RECURSIVE OrthoLoop(_, _)
OrthoLoop(states, result) ==
    IF states = <<>> THEN result
    ELSE OrthoLoop(Tail(states),
                   Append(result, Normalize(GramSchmidt(Head(states).data, result))))

\* the validation loop of orthonormalize
RECURSIVE OrthoCheck(_, _)
OrthoCheck(states, grid) ==
    IF states = <<>> THEN "ok"
    ELSE IF ~IsWaveFunction(Head(states)) THEN "BadStateError"
    ELSE IF ~GridEq(Head(states).grid, grid) THEN "BadGridError"
    ELSE IF trace(Head(states)) = 0 THEN "BadStateError"
    ELSE OrthoCheck(Tail(states), grid)

orthonormalize(states) ==
    IF states = <<>> THEN [outcome |-> "ok", result |-> <<>>]
    ELSE IF OrthoCheck(states, states[1].grid) # "ok"
         THEN [outcome |-> OrthoCheck(states, states[1].grid), result |-> "none"]
    ELSE [outcome |-> "ok",
          result |-> With(OrthoLoop(states, <<>>),
                          LAMBDA r : [k \in 1..Len(r) |-> State(states[1].grid, r[k])])]

\* the validation loop of Projection.__init__, on the first element only
RECURSIVE ProjectionCheckFirstOnly(_)
ProjectionCheckFirstOnly(basis) ==
    IF basis = <<>> THEN "ok"
    ELSE IF ~IsWaveFunction(Head(basis)) THEN "BadStateError"
    ELSE IF trace(Head(basis)) = 0 THEN "BadStateError"
    ELSE "ok"

\* the validation loop of Projection.__init__
RECURSIVE ProjectionCheck(_)
ProjectionCheck(basis) ==
    IF basis = <<>> THEN "ok"
    ELSE IF ~IsWaveFunction(Head(basis)) THEN "BadStateError"
    ELSE IF trace(Head(basis)) = 0 THEN "BadStateError"
    ELSE ProjectionCheck(Tail(basis))

\* Projection.__init__: a State becomes [basis]; the stacked orthonormal
\* basis and the grid of the first element are stored
NewProjection(arg) ==
    LET basis == IF arg.kind = "State" THEN <<arg.state>> ELSE arg.states
    IN IF basis = <<>> THEN [outcome |-> "InvalidValueError", result |-> "none"]
       ELSE IF ProjectionCheck(basis) # "ok"
            THEN [outcome |-> ProjectionCheck(basis), result |-> "none"]
       ELSE IF orthonormalize(basis).outcome # "ok"
            THEN [outcome |-> orthonormalize(basis).outcome, result |-> "none"]
       ELSE [outcome |-> "ok",
             result |-> [kind |-> "projection", grid |-> basis[1].grid,
                         ket_nd |-> [k \in 1..Len(basis) |->
                                        orthonormalize(basis).result[k].data]]]

\* two orthogonal wave functions of trace 1, wave functions of trace 2 and 4,
\* the zero wave function and the unit density on grid 1, and a wave function
\* on grid 2
BasisStates ==
    {State(1, Scaled(<<2>>, <<<<1, 0>>, <<0, 0>>>>, 1)),
     State(1, Scaled(<<2>>, <<<<0, 0>>, <<1, 0>>>>, 1)),
     State(1, Scaled(<<2>>, <<<<1, 0>>, <<0, 1>>>>, 1)),
     State(1, Scaled(<<2>>, <<<<0, 0>>, <<0, 2>>>>, 1)),
     State(1, Scaled(<<2>>, <<<<0, 0>>, <<0, 0>>>>, 1)),
     State(1, Scaled(<<2, 2>>, <<<<1, 0>>, <<0, 0>>, <<0, 0>>, <<1, 0>>>>, 1)),
     State(2, Scaled(<<2>>, <<<<1, 0>>, <<1, 0>>>>, 1))}

BasisSequences == SeqsUpTo(BasisStates, MaxBasis)

DoOrthonormalize ==
    /\ call = NoCall
    /\ \E states \in BasisSequences :
        call' = [fn |-> "orthonormalize", states |-> states,
                 ret |-> orthonormalize(states)]
    /\ UNCHANGED <<solver, stepHist, dofRun, genRun, heap>>

DoNewProjection ==
    /\ call = NoCall
    /\ \E arg \in {[kind |-> "State", state |-> s] : s \in BasisStates}
                  \cup {[kind |-> "sequence", states |-> q] : q \in BasisSequences} :
        call' = [fn |-> "Projection.__init__", arg |-> arg, ret |-> NewProjection(arg)]
    /\ UNCHANGED <<solver, stepHist, dofRun, genRun, heap>>

\* trace of one of the states that orthonormalize returned
DoTrace ==
    /\ call.fn = "orthonormalize"
    /\ call.ret.outcome = "ok"
    /\ \E k \in 1..Len(call.ret.result) :
        call' = [fn |-> "trace", state |-> call.ret.result[k], input |-> call.states[k],
                 ret |-> trace(call.ret.result[k])]
    /\ UNCHANGED <<solver, stepHist, dofRun, genRun, heap>>

BasisNext ==
    \/ DoOrthonormalize
    \/ DoNewProjection
    \/ DoTrace
    \/ Return

BasisSpec == Init /\ [][BasisNext]_vars

(***************************************************************************)
(* trace of wave functions, of density operators with any diagonal, and of *)
(* pure densities, in exact arithmetic.  Diagonal values are Gaussian      *)
(* integers whose modulus is an integer.                                   *)
(***************************************************************************)
MaxAmplitude == 1

Amplitudes == {<<re, im>> : re \in (0 - MaxAmplitude)..MaxAmplitude,
                            im \in (0 - MaxAmplitude)..MaxAmplitude}

DiagonalValues == {<<0, 0>>, <<1, 0>>, <<2, 0>>, <<0 - 1, 0>>, <<0, 1>>, <<3, 4>>}

\* wave functions on grid 1 (one DOF of two points) and on grid 3 (two DOFs,
\* 2 x 3 points)
TraceWaveFunctions ==
    {State(1, Scaled(<<2>>, <<a, b>>, 1)) : a \in Amplitudes, b \in Amplitudes}
    \cup {State(3, Scaled(<<2, 3>>, <<a, <<1, 0>>, <<0, 0>>, <<0, 1>>, <<0, 0>>, b>>, 1)) :
            a \in Amplitudes, b \in {<<1, 1>>}}

\* density operators on grid 1 with every pair of diagonal values, and a
\* tensor that fits neither shape
TraceDensities ==
    {State(1, Scaled(<<2, 2>>, <<d1, o, <<o[1], 0 - o[2]>>, d2>>, 1)) :
        d1 \in DiagonalValues, d2 \in DiagonalValues, o \in {<<0, 0>>, <<1, 1>>}}
    \cup {State(1, Scaled(<<3>>, <<<<1, 0>>, <<1, 0>>, <<1, 0>>>>, 1))}

\* ket[..., None] * conj(bra) in exact arithmetic
ExactOuter(g, ket, bra) ==
    Scaled(OperatorShape(g),
           [k \in 1..(Len(ket.vals) * Len(bra.vals)) |->
               ZMul(ket.vals[((k - 1) \div Len(bra.vals)) + 1],
                    ZConj(bra.vals[((k - 1) % Len(bra.vals)) + 1]))],
           1)

\* wp.builder.pure_density(psi) = direct_product(psi, psi) in exact arithmetic
ExactPureDensity(psi) ==
    IF ~IsWaveFunction(psi) THEN [outcome |-> "BadStateError", result |-> "none"]
    ELSE [outcome |-> "ok", result |-> State(psi.grid, ExactOuter(psi.grid, psi.data, psi.data))]

DoTraceState ==
    /\ call = NoCall
    /\ \E state \in TraceWaveFunctions \cup TraceDensities :
        call' = [fn |-> "grid.trace", state |-> state, of |-> "state",
                 ret |-> trace(state)]
    /\ UNCHANGED <<solver, stepHist, dofRun, genRun, heap>>

DoExactPureDensity ==
    /\ call = NoCall
    /\ \E psi \in TraceWaveFunctions :
        call' = [fn |-> "builder.pure_density", psi |-> psi, ret |-> ExactPureDensity(psi)]
    /\ UNCHANGED <<solver, stepHist, dofRun, genRun, heap>>

\* trace of the pure density just built
DoTracePureDensity ==
    /\ call.fn = "builder.pure_density"
    /\ call.ret.outcome = "ok"
    /\ call' = [fn |-> "grid.trace", state |-> call.ret.result, of |-> "pure_density",
                psi |-> call.psi, ret |-> trace(call.ret.result)]
    /\ UNCHANGED <<solver, stepHist, dofRun, genRun, heap>>

TraceNext ==
    \/ DoTraceState
    \/ DoExactPureDensity
    \/ DoTracePureDensity
    \/ Return

TraceSpec == Init /\ [][TraceNext]_vars

(***************************************************************************)
(* expectation_value and diagonalize (wavepacket/operator_utils.py).  The  *)
(* optional time argument is a record: given = FALSE stands for None.      *)
(* diagonalize is a generator function: the call creates the generator and *)
(* runs none of its body; each next() runs the body up to the next yield.  *)
(* numpy.linalg.eigh is not computed: a yielded pair is its index and the  *)
(* matrix that was diagonalized.                                           *)
(***************************************************************************)
NoTime == [given |-> FALSE, value |-> 0]

TimeArguments == {NoTime} \cup {[given |-> TRUE, value |-> t] : t \in Times}

\* the functions as they were before the test was added (solver/tise.py,
\* operator/operatorutils.py)
RequireTimeNever(op, t) == FALSE

\* `if op.time_dependent and t is None: raise wp.InvalidValueError`
RequireTime(op, t) == TimeDependent(op) /\ ~t.given

\* np.vdot(a, b): sum of conj(a) * b
VDot(a, b) ==
    LET RECURSIVE S(_)
        S(k) == IF k = 0 THEN CZero ELSE CAdd(S(k - 1), CMul(CConj(a.vals[k]), b.vals[k]))
    IN S(Len(a.vals))

\* np.trace(np.reshape(data, [size, size]))
MatrixTrace(data, size) ==
    LET RECURSIVE S(_)
        S(k) == IF k = 0 THEN CZero ELSE CAdd(S(k - 1), data.vals[(k - 1) * size + k])
    IN S(size)

\* expectation_value(op, state, t); a None reaches only operators that
\* ignore the time
ExpectationValue(op, state, t) ==
    IF RequireTime(op, t)
    THEN [outcome |-> "InvalidValueError", result |-> "none", log |-> <<>>]
    ELSE LET new == OperatorApplyResult(op, state, t.value)
         IN IF new.outcome # "ok" THEN new
            ELSE [outcome |-> "ok",
                  result |-> IF IsWaveFunction(state)
                             THEN VDot(state.data, new.result.data)
                             ELSE MatrixTrace(new.result.data, Prod(GridShape(state.grid))),
                  log |-> new.log]

\* wp.builder.unit_density(grid): the identity matrix in operator shape
UnitDensity(g) ==
    State(g, Tensor(OperatorShape(g),
                    [k \in 1..(Prod(GridShape(g)) * Prod(GridShape(g))) |->
                        IF (k - 1) \div Prod(GridShape(g)) = (k - 1) % Prod(GridShape(g))
                        THEN COne ELSE CZero]))

\* the generator object that diagonalize(op, t) returns
NewDiagonalize(op, t) ==
    [fn |-> "diagonalize", op |-> op, t |-> t, pos |-> "created",
     outcome |-> "ok", log |-> <<>>, yielded |-> 0, matrix |-> <<>>]

\* the body of diagonalize up to its first yield
DiagonalizeStart(gen) ==
    IF RequireTime(gen.op, gen.t)
    THEN [gen EXCEPT !.pos = "raised", !.outcome = "InvalidValueError"]
    ELSE LET rho == OperatorApplyResult(gen.op, UnitDensity(gen.op.grid), gen.t.value)
         IN IF rho.outcome # "ok"
            THEN [gen EXCEPT !.pos = "raised", !.outcome = rho.outcome, !.log = rho.log]
            ELSE [gen EXCEPT !.pos = "yielded", !.yielded = 1, !.log = rho.log,
                             !.matrix = rho.result.data.vals]

\* next() on the generator: `for i in range(vals.size): ... yield`
DiagonalizeResume(gen) ==
    IF gen.pos = "created" THEN DiagonalizeStart(gen)
    ELSE IF gen.yielded < Prod(GridShape(gen.op.grid))
         THEN [gen EXCEPT !.yielded = gen.yielded + 1]
    ELSE [gen EXCEPT !.pos = "done"]

DoExpectationValue ==
    /\ call = NoCall
    /\ \E op \in Operators, s \in States, t \in TimeArguments :
        call' = [fn |-> "expectation_value", op |-> op, state |-> s, t |-> t,
                 ret |-> ExpectationValue(op, s, t)]
    /\ UNCHANGED <<solver, stepHist, dofRun, genRun, heap>>

DoDiagonalize ==
    /\ call = NoCall
    /\ \E op \in Operators, t \in TimeArguments :
        call' = NewDiagonalize(op, t)
    /\ UNCHANGED <<solver, stepHist, dofRun, genRun, heap>>

DoDiagonalizeNext ==
    /\ call.fn = "diagonalize"
    /\ call.pos \in {"created", "yielded"}
    /\ call' = DiagonalizeResume(call)
    /\ UNCHANGED <<solver, stepHist, dofRun, genRun, heap>>

UtilsNext ==
    \/ DoExpectationValue
    \/ DoDiagonalize
    \/ DoDiagonalizeNext
    \/ Return

UtilsSpec == Init /\ [][UtilsNext]_vars

(***************************************************************************)
(* TimeDependentOperator: construction from a function f(t), the three     *)
(* primitives with the calls they make to f, and time_dependent.           *)
(***************************************************************************)
NewTimeDependentOperator(g, f) == Td(g, f)

\* one primitive of a TimeDependentOperator: the result and the calls of f
TdPrimitive(op, prim, data, t) ==
    [data |-> ApplyPrim(op, prim, data, t).data, func_calls |-> TdFuncCalls(op, prim, t)]

DoNewTimeDependentOperator ==
    /\ call = NoCall
    /\ \E g \in GridIds, f \in {1, 2} :
        call' = [fn |-> "TimeDependentOperator.__init__", grid |-> g, func |-> f,
                 ret |-> NewTimeDependentOperator(g, f)]
    /\ UNCHANGED <<solver, stepHist, dofRun, genRun, heap>>

\* a primitive of the operator just built
DoTdPrimitive ==
    /\ call.fn = "TimeDependentOperator.__init__"
    /\ \E prim \in {"wf", "left", "right"}, t \in Times :
        \E data \in PrimitiveInputs(call.ret.grid, prim) :
            call' = [fn |-> "TimeDependentOperator.primitive", op |-> call.ret,
                     prim |-> prim, data |-> data, t |-> t,
                     ret |-> TdPrimitive(call.ret, prim, data, t)]
    /\ UNCHANGED <<solver, stepHist, dofRun, genRun, heap>>

\* time_dependent of the operator just built
DoTdTimeDependent ==
    /\ call.fn = "TimeDependentOperator.__init__"
    /\ call' = [fn |-> "TimeDependentOperator.time_dependent", op |-> call.ret,
                ret |-> TimeDependent(call.ret)]
    /\ UNCHANGED <<solver, stepHist, dofRun, genRun, heap>>

TdNext ==
    \/ DoNewTimeDependentOperator
    \/ DoTdPrimitive
    \/ DoTdTimeDependent
    \/ Return

TdSpec == Init /\ [][TdNext]_vars

(***************************************************************************)
(* SolverBase.propagate, a generator function.  The call creates the       *)
(* generator; each next() runs the body up to the next yield.  step is     *)
(* abstract in SolverBase: a propagated state is the initial state and the *)
(* start times of the steps applied to it, so that different step          *)
(* sequences give different states.                                        *)
(***************************************************************************)
MaxNumSteps == 3

\* the result of self.step(state, t)
PropagateStep(state, t) == [state0 |-> state.state0, steps |-> Append(state.steps, t)]

\* every step started at t0
StepTimeFromStart(gen) == gen.t0

\* t = t0 + step * self.dt
StepTime(gen) == gen.t0 + gen.step * gen.dt

NewPropagate(dt, state0, t0, num_steps, include_first) ==
    [fn |-> "SolverBase.propagate", dt |-> dt, state0 |-> state0, t0 |-> t0,
     num_steps |-> num_steps, include_first |-> include_first,
     pos |-> "created", outcome |-> "ok", step |-> 0, state |-> state0,
     yields |-> <<>>, step_calls |-> <<>>]

\* one pass of `for step in range(num_steps)`, or the end of the generator
PropagateLoop(gen) ==
    IF gen.step < gen.num_steps
    THEN LET t == StepTime(gen)
             state == PropagateStep(gen.state, t)
         IN [gen EXCEPT !.pos = "yielded", !.step = gen.step + 1, !.state = state,
                        !.step_calls = Append(gen.step_calls,
                                              [state |-> gen.state, t |-> t]),
                        !.yields = Append(gen.yields,
                                          [t |-> t + gen.dt, state |-> state])]
    ELSE [gen EXCEPT !.pos = "done"]

\* next() on the generator
PropagateResume(gen) ==
    IF gen.pos = "created"
    THEN IF gen.num_steps < 0
         THEN [gen EXCEPT !.pos = "raised", !.outcome = "InvalidValueError"]
         ELSE IF gen.include_first
         THEN [gen EXCEPT !.pos = "yielded",
                          !.yields = <<[t |-> gen.t0, state |-> gen.state0]>>]
         ELSE PropagateLoop(gen)
    ELSE PropagateLoop(gen)

DoPropagate ==
    /\ call = NoCall
    /\ \E dt \in 1..MaxDt, s \in 1..2, t0 \in Times, n \in (0 - 1)..MaxNumSteps,
          include_first \in BOOLEAN :
        call' = NewPropagate(dt, [state0 |-> s, steps |-> <<>>], t0, n, include_first)
    /\ UNCHANGED <<solver, stepHist, dofRun, genRun, heap>>

DoPropagateNext ==
    /\ call.fn = "SolverBase.propagate"
    /\ call.pos \in {"created", "yielded"}
    /\ call' = PropagateResume(call)
    /\ UNCHANGED <<solver, stepHist, dofRun, genRun, heap>>

PropagateNext ==
    \/ DoPropagate
    \/ DoPropagateNext
    \/ Return

PropagateSpec == Init /\ [][PropagateNext]_vars

(***************************************************************************)
(* OperatorSum and OperatorProduct built from a sequence object of the     *)
(* caller.  __init__ stores the object itself (self._ops = ops): heap.list *)
(* is the content of that object, which is the composite's member list,    *)
(* and heap.built is the content when the composite was constructed.  A    *)
(* list can be modified by the caller afterwards, a tuple cannot.          *)
(***************************************************************************)
\* operators on two grid objects of the same shape
HeapOps == {Td(1, 1), Const(1, Cx(2, 0)), Const(2, Cx(2, 0))}

\* self._ops of the composite
Members(h) == h.list

\* the composite as its methods see it
CompositeOf(h) == [kind |-> h.obj.kind, grid |-> h.obj.grid, ops |-> Members(h)]

DoNewCompositeFrom ==
    /\ call = NoCall
    /\ heap = NoHeap
    /\ \E kind \in {"sum", "prod"}, passed \in {"list", "tuple"},
          ops \in SeqsUpTo(HeapOps, MaxMembers) :
        /\ call' = [fn |-> "Composite.__init__", kind |-> kind, ops |-> ops,
                    ret |-> NewComposite(kind, ops)]
        /\ heap' = IF NewComposite(kind, ops).outcome = "ok"
                   THEN [list |-> ops, passed |-> passed,
                         obj |-> [kind |-> kind, grid |-> ops[1].grid], built |-> ops]
                   ELSE heap
    /\ UNCHANGED <<solver, stepHist, dofRun, genRun>>

\* the caller appends to the list it passed
DoListAppend ==
    /\ call = NoCall
    /\ heap.passed = "list"
    /\ Len(heap.list) < MaxMembers
    /\ \E op \in HeapOps : heap' = [heap EXCEPT !.list = Append(heap.list, op)]
    /\ UNCHANGED <<call, solver, stepHist, dofRun, genRun>>

\* the caller removes the last element of the list it passed
DoListPop ==
    /\ call = NoCall
    /\ heap.passed = "list"
    /\ heap.list # <<>>
    /\ heap' = [heap EXCEPT !.list = SubSeq(heap.list, 1, Len(heap.list) - 1)]
    /\ UNCHANGED <<call, solver, stepHist, dofRun, genRun>>

DoHeapTimeDependent ==
    /\ call = NoCall
    /\ heap.obj.kind # "none"
    /\ call' = [fn |-> "Composite.time_dependent", ret |-> TimeDependent(CompositeOf(heap))]
    /\ UNCHANGED <<solver, stepHist, dofRun, genRun, heap>>

DoHeapPrimitive ==
    /\ call = NoCall
    /\ heap.obj.kind # "none"
    /\ \E prim \in {"wf", "left", "right"}, t \in Times :
        \E data \in PrimitiveInputs(heap.obj.grid, prim) :
            call' = [fn |-> "Composite.primitive", prim |-> prim, data |-> data, t |-> t,
                     ret |-> ApplyPrim(CompositeOf(heap), prim, data, t)]
    /\ UNCHANGED <<solver, stepHist, dofRun, genRun, heap>>

HeapNext ==
    \/ DoNewCompositeFrom
    \/ DoListAppend
    \/ DoListPop
    \/ DoHeapTimeDependent
    \/ DoHeapPrimitive
    \/ Return

HeapSpec == Init /\ [][HeapNext]_vars

(***************************************************************************)
(* The DOF index of Potential1D, PlaneWaveFbrOperator and FbrOperator1D,   *)
(* for indices inside and outside [-ndof, ndof).                           *)
(***************************************************************************)
\* grid.dofs[dof_index] raises IndexError: the first statement of the three
\* constructors indexes the DOF list
DofsItemError(dofs, dof_index) == dof_index < 0 - Len(dofs) \/ dof_index >= Len(dofs)

IndexedClasses == {"Potential1D", "PlaneWaveFbrOperator", "FbrOperator1D"}

\* cls(grid, dof_index, generator, cutoff)
NewIndexed(cls, dofs, dof_index, gen, cutoff) ==
    IF DofsItemError(dofs, dof_index) THEN GeneratedError("IndexError")
    ELSE CASE cls = "Potential1D" -> NewPotential1D(dofs, dof_index, gen, cutoff)
           [] cls = "PlaneWaveFbrOperator" ->
                NewPlaneWaveFbrOperator(dofs, dof_index, gen, cutoff)
           [] OTHER -> NewFbrOperator1D(dofs, dof_index, gen, cutoff)

\* indices in range and the two nearest ones out of range
AnyDofIndices(dofs) == (0 - Len(dofs) - 1)..Len(dofs)

DoNewIndexed ==
    /\ call = NoCall
    /\ \E cls \in IndexedClasses, dofs \in GeneratedGrids, gen \in UserGenerators,
          cutoff \in GeneratedCutoffs :
        \E dof_index \in AnyDofIndices(dofs) :
            call' = [fn |-> "Indexed.__init__", cls |-> cls, grid |-> dofs,
                     dof_index |-> dof_index, gen |-> gen, cutoff |-> cutoff,
                     ret |-> NewIndexed(cls, dofs, dof_index, gen, cutoff)]
    /\ UNCHANGED <<solver, stepHist, dofRun, genRun, heap>>

\* one apply_* call on the operator just constructed
DoApplyIndexed ==
    /\ call.fn = "Indexed.__init__"
    /\ call.ret.outcome = "ok"
    /\ \E prim \in {"wf", "left", "right"}, seed \in 1..MaxSeed :
        LET shape == IF prim = "wf" THEN DofShape(call.grid)
                     ELSE DofShape(call.grid) \o DofShape(call.grid)
            data == Tensor(shape, MkVals(Prod(shape), seed))
        IN call' = [fn |-> "Indexed.apply", cls |-> call.cls, grid |-> call.grid,
                    dof_index |-> call.dof_index, gen |-> call.gen,
                    cutoff |-> call.cutoff, op |-> call.ret.result,
                    prim |-> prim, data |-> data,
                    ret |-> ApplyGenerated(call.ret.result, prim, data)]
    /\ UNCHANGED <<solver, stepHist, dofRun, genRun, heap>>

IndexedNext ==
    \/ DoNewIndexed
    \/ DoApplyIndexed
    \/ Return

IndexedSpec == Init /\ [][IndexedNext]_vars

(***************************************************************************)
(* SoftRectangularFunction.  Parameters are whole numbers; times are held  *)
(* in tenths, so that the default border half_width / 10 is exact.  A      *)
(* value is a number or cos(pi * num / (2 * den)) with 0 < num.            *)
(***************************************************************************)
MaxHalfWidth == 2

MaxBorder == 2

Number(x) == [kind |-> "number", value |-> x]

\* math.cos(self._scale * x) with self._scale = pi / (2 * border); cos(0) is 1.0
CosOf(num, den) == IF num = 0 THEN Number(1) ELSE [kind |-> "cos", num |-> num, den |-> den]

\* border: None or a number
BorderArguments ==
    {[given |-> FALSE, value |-> 0]}
    \cup {[given |-> TRUE, value |-> b] : b \in (0 - 1)..MaxBorder}

\* the border in tenths: half_width / 10 if None
BorderOf(half_width, border) ==
    IF border.given THEN 10 * border.value ELSE half_width

\* SoftRectangularFunction.__init__
NewSoftRectangularFunction(t0, half_width, border) ==
    IF half_width <= 0 \/ BorderOf(half_width, border) <= 0
    THEN [outcome |-> "InvalidValueError", result |-> "none"]
    ELSE LET b == BorderOf(half_width, border)
             min == 10 * t0 - 10 * half_width - b
         IN [outcome |-> "ok",
             result |-> [scale |-> b, min |-> min, rect_min |-> min + b,
                         rect_max |-> min + b + 2 * 10 * half_width,
                         max |-> min + b + 2 * 10 * half_width + b]]

\* SoftRectangularFunction.__call__: the fourth test repeats the third
SoftRectangularCall(f, t) ==
    IF t <= f.min THEN Number(0)
    ELSE IF t <= f.rect_min THEN CosOf(f.rect_min - t, f.scale)
    ELSE IF t <= f.rect_max THEN Number(1)
    ELSE IF t <= f.rect_max THEN CosOf(t - f.rect_max, f.scale)
    ELSE Number(0)

\* the times, in tenths, at which a function is evaluated
PulseTimes == (0 - 10 * (MaxHalfWidth + MaxBorder) - 1)..(10 * (1 + MaxHalfWidth + MaxBorder) + 1)

DoNewSoftRectangularFunction ==
    /\ call = NoCall
    /\ \E t0 \in 0..1, half_width \in 0..MaxHalfWidth, border \in BorderArguments :
        call' = [fn |-> "SoftRectangularFunction.__init__", t0 |-> t0,
                 half_width |-> half_width, border |-> border,
                 ret |-> NewSoftRectangularFunction(t0, half_width, border)]
    /\ UNCHANGED <<solver, stepHist, dofRun, genRun, heap>>

\* the function just constructed is called
DoSoftRectangularCall ==
    /\ call.fn = "SoftRectangularFunction.__init__"
    /\ call.ret.outcome = "ok"
    /\ \E t \in PulseTimes :
        call' = [fn |-> "SoftRectangularFunction.__call__", self |-> call.ret.result,
                 t0 |-> call.t0, half_width |-> call.half_width,
                 border |-> call.border, t |-> t,
                 ret |-> SoftRectangularCall(call.ret.result, t)]
    /\ UNCHANGED <<solver, stepHist, dofRun, genRun, heap>>

PulseNext ==
    \/ DoNewSoftRectangularFunction
    \/ DoSoftRectangularCall
    \/ Return

PulseSpec == Init /\ [][PulseNext]_vars

(***************************************************************************)
(* Claims.                                                                 *)
(***************************************************************************)
AllPrims(log, prim) == log # <<>> /\ \A i \in 1..Len(log) : log[i].prim = prim

\* C1: OperatorBase.apply raises BadGridError when the state's grid does not
\* match the operator's grid; on a matching grid it returns a State on the same
\* grid computed by apply_to_wave_function if the state is a wave function and
\* by apply_from_left if it is a density operator, and raises BadStateError if
\* the state is neither; when it raises, no apply_* primitive was invoked.
C1_ApplyContract ==
    call.fn = "OperatorBase.apply" =>
        LET op == call.op
            s == call.state
            r == call.ret
        IN /\ ~GridEq(s.grid, op.grid) => r.outcome = "BadGridError"
           /\ (GridEq(s.grid, op.grid) /\ IsWaveFunction(s)) =>
                /\ r.outcome = "ok"
                /\ r.result.grid = s.grid
                /\ AllPrims(r.log, "wf")
                /\ r.result.data = ApplyPrim(op, "wf", s.data, call.t).data
           /\ (GridEq(s.grid, op.grid) /\ IsDensityOperator(s)) =>
                /\ r.outcome = "ok"
                /\ r.result.grid = s.grid
                /\ AllPrims(r.log, "left")
                /\ r.result.data = ApplyPrim(op, "left", s.data, call.t).data
           /\ (GridEq(s.grid, op.grid) /\ ~IsWaveFunction(s) /\ ~IsDensityOperator(s)) =>
                r.outcome = "BadStateError"
           /\ r.outcome # "ok" => r.log = <<>>

C3_Truncation ==
    (call.fn = "Solver.__init__" /\ call.ret.outcome = "ok") =>
        LET c == call.ret.result.coeffs
            N == Order(call.ret.result)
        IN /\ N >= 3
           /\ c[1] = call.jv[0]
           /\ \A n \in 1..N : c[n + 1] = 2 * call.jv[n]
           /\ Abs(c[N + 1]) < call.cutoff
           /\ \A n \in 3..(N - 1) : Abs(c[n + 1]) >= call.cutoff

\* C3 witness: a solver whose c_1 and c_2 are below the cutoff and whose c_3 is
\* not, so that the series runs on to order 4.
C3_Witness ==
    /\ call.fn = "Solver.__init__"
    /\ call.ret.outcome = "ok"
    /\ Abs(call.ret.result.coeffs[2]) < call.cutoff
    /\ Abs(call.ret.result.coeffs[3]) < call.cutoff
    /\ call.ret.result.coeffs[4] < 0
    /\ Order(call.ret.result) = 4

FiberTransformed(name, k) ==
    Transform(name, dofRun.dof,
              Tensor(<<dofRun.dof.size>>,
                     Fiber(dofRun.input, NormalizeAxis(dofRun.input, dofRun.index), k)),
              0, dofRun.is_ket)

\* C6: for the plane-wave and the spherical-harmonics DOF, every tensor d and
\* every valid axis, given as a non-negative or a negative index,
\* from_dvr(to_dvr(d, axis), axis) = d and
\* from_fbr(to_fbr(d, axis, is_ket), axis, is_ket) = d for both values of
\* is_ket; every transformation returns a tensor of the shape of d, and acts
\* on each fiber along the axis by itself.
C6_RoundTrip ==
    dofRun # NoRun =>
        /\ dofRun.data.shape = dofRun.input.shape
        /\ dofRun.trail = <<"to_dvr", "from_dvr">> => dofRun.data = dofRun.input
        /\ dofRun.trail = <<"to_fbr", "from_fbr">> => dofRun.data = dofRun.input
        /\ Len(dofRun.trail) = 1 =>
             \A k \in 1..Len(dofRun.input.vals) :
                dofRun.data.vals[k] =
                    FiberTransformed(dofRun.trail[1], k).vals[
                        AxisIndex(dofRun.input.shape,
                                  NormalizeAxis(dofRun.input, dofRun.index), k) + 1]

\* C6 witness: a rank-3 tensor went to the FBR and back as a bra along its
\* middle axis, given as -2, on the plane-wave DOF with an odd number of points.
C6_Witness ==
    /\ dofRun # NoRun
    /\ dofRun.dof.kind = "planewave"
    /\ dofRun.dof.size = 3
    /\ Len(dofRun.input.shape) = 3
    /\ dofRun.index = 0 - 2
    /\ ~dofRun.is_ket
    /\ dofRun.trail = <<"to_fbr", "from_fbr">>
    /\ dofRun.data = dofRun.input
    /\ \E k \in 1..Len(dofRun.input.vals) : dofRun.input.vals[k] # CZero

\* C7 as stated: grid equality is structural, so a grid-matching check accepts
\* a State on a separately constructed Grid holding the same DOF sequence.
C7_StructuralEquality ==
    /\ call.fn = "OperatorBase.apply" =>
         (GridDofs(call.state.grid) = GridDofs(call.op.grid)
             <=> call.ret.outcome # "BadGridError")
    /\ call.fn = "Expression.apply" =>
         (GridDofs(call.state.grid) = GridDofs(call.expr.op.grid)
             <=> call.ret.outcome # "BadGridError")
    /\ call.fn = "State.arith" =>
         (GridDofs(call.self.grid) = GridDofs(call.other.grid)
             <=> call.ret.outcome # "BadGridError")
    /\ (call.fn \in {"Composite.__init__", "Operator.overload"} /\ call.ops # <<>>) =>
         ((\A i \in 1..Len(call.ops) :
              GridDofs(call.ops[i].grid) = GridDofs(call.ops[1].grid))
             <=> call.ret.outcome # "BadGridError")

\* C7 amended: grid equality is the identity of the Grid objects.  Every
\* grid-matching check (State arithmetic, OperatorBase.apply, expression apply,
\* OperatorSum/OperatorProduct construction) raises BadGridError exactly when
\* the two Grid objects are distinct, also when both hold the same DOF sequence.
C7_IdentityEquality ==
    /\ call.fn = "OperatorBase.apply" =>
         (call.state.grid = call.op.grid <=> call.ret.outcome # "BadGridError")
    /\ call.fn = "Expression.apply" =>
         (call.state.grid = call.expr.op.grid <=> call.ret.outcome # "BadGridError")
    /\ call.fn = "State.arith" =>
         (call.self.grid = call.other.grid <=> call.ret.outcome # "BadGridError")
    /\ (call.fn \in {"Composite.__init__", "Operator.overload"} /\ call.ops # <<>>) =>
         ((\A i \in 1..Len(call.ops) : call.ops[i].grid = call.ops[1].grid)
             <=> call.ret.outcome # "BadGridError")

\* C7 witness: an operator applied to a State on another Grid object with the
\* same DOF sequence raised BadGridError.
C7_Witness ==
    /\ call.fn = "OperatorBase.apply"
    /\ call.state.grid # call.op.grid
    /\ GridDofs(call.state.grid) = GridDofs(call.op.grid)
    /\ IsWaveFunction(call.state)
    /\ call.ret.outcome = "BadGridError"

\* the shape class of a State
ShapeClasses(s) ==
    {c \in {"wave function", "density operator"} :
        \/ c = "wave function" /\ IsWaveFunction(s)
        \/ c = "density operator" /\ IsDensityOperator(s)}

\* C8: adding or subtracting two States succeeds only when both are on the same
\* grid and both are wave functions or both are density operators; a differing
\* grid raises BadGridError, a differing shape class raises BadStateError, and
\* on success the result is a State on that grid of the same shape class.
C8_StateArithmetic ==
    call.fn = "State.arith" =>
        LET a == call.self
            b == call.other
            r == call.ret
        IN /\ r.outcome = "ok" =>
                /\ GridEq(a.grid, b.grid)
                /\ \/ IsWaveFunction(a) /\ IsWaveFunction(b)
                   \/ IsDensityOperator(a) /\ IsDensityOperator(b)
           /\ ~GridEq(a.grid, b.grid) => r.outcome = "BadGridError"
           /\ (GridEq(a.grid, b.grid) /\ ShapeClasses(a) # ShapeClasses(b)) =>
                r.outcome = "BadStateError"
           /\ r.outcome = "ok" =>
                /\ r.result.grid = a.grid
                /\ ShapeClasses(r.result) = ShapeClasses(a)

\* C9: the apply of SchroedingerEquation, CommutatorLiouvillian and
\* OneSidedLiouvillian raises BadGridError when the state's grid differs from
\* the wrapped operator's grid, also when the shape class is wrong as well; on
\* a matching grid it raises BadStateError unless the state is a wave function
\* (SchroedingerEquation) or a density operator (the Liouvillians); when it
\* raises, no operator primitive was invoked.
C9_ExpressionErrors ==
    call.fn = "Expression.apply" =>
        LET e == call.expr
            s == call.state
            r == call.ret
            fits == IF e.kind = "schroedinger" THEN IsWaveFunction(s)
                    ELSE IsDensityOperator(s)
        IN /\ s.grid # e.op.grid => r.outcome = "BadGridError"
           /\ (s.grid = e.op.grid /\ ~fits) => r.outcome = "BadStateError"
           /\ (s.grid = e.op.grid /\ fits) => r.outcome = "ok"
           /\ r.outcome # "ok" => r.log = <<>>
           /\ r.outcome = "ok" => r.log # <<>>

\* C9 witness: an expression applied to a state with the wrong grid and the
\* wrong shape class raised BadGridError, and another raised BadStateError.
C9_Witness ==
    /\ call.fn = "Expression.apply"
    /\ call.state.grid # call.expr.op.grid
    /\ call.expr.kind = "commutator"
    /\ ~IsDensityOperator(call.state)
    /\ call.ret.outcome = "BadGridError"
    /\ call.ret.log = <<>>

\* C10: building an OperatorSum or OperatorProduct, directly or through + and *,
\* raises InvalidValueError for an empty member list and BadGridError if a
\* member's grid differs from the first member's grid; otherwise the composite
\* holds the members and is bound to their common grid.
C10_CompositeConstruction ==
    call.fn \in {"Composite.__init__", "Operator.overload"} =>
        LET ops == call.ops
            r == call.ret
        IN /\ ops = <<>> => r.outcome = "InvalidValueError"
           /\ (ops # <<>> /\ \E i \in 1..Len(ops) : ops[i].grid # ops[1].grid) =>
                r.outcome = "BadGridError"
           /\ (ops # <<>> /\ \A i \in 1..Len(ops) : ops[i].grid = ops[1].grid) =>
                /\ r.outcome = "ok"
                /\ r.result.kind = call.kind
                /\ r.result.ops = ops
                /\ \A i \in 1..Len(ops) : r.result.grid = ops[i].grid

\* C10 witness: a sum of two operators on distinct grids was refused, through
\* the + overload.
C10_Witness ==
    /\ call.fn = "Operator.overload"
    /\ call.kind = "sum"
    /\ call.ops[1].grid # call.ops[2].grid
    /\ call.ret.outcome = "BadGridError"

RECURSIVE FactorsOf(_)
\* the factors A1, .., An of a product as written, through nested products
Factors(op) == IF op.kind = "prod" THEN FactorsOf(op.ops) ELSE <<op>>

FactorsOf(ops) ==
    IF ops = <<>> THEN <<>> ELSE Factors(Head(ops)) \o FactorsOf(Tail(ops))

RECURSIVE Chained(_, _, _, _)
\* each operator of `ops` in turn invoked on the result of the one before
Chained(ops, prim, t, acc) ==
    IF ops = <<>> THEN acc
    ELSE LET r == ApplyPrim(Head(ops), prim, acc.data, t)
         IN Chained(Tail(ops), prim, t,
                    [data |-> r.data, log |-> acc.log \o r.log])

\* C11: for a product A1 * .. * An, however the * nest, apply_to_wave_function
\* and apply_from_left invoke the factors' primitives in the order An, .., A1
\* and apply_from_right in the order A1, .., An, each on the result of the
\* previous one and each factor exactly once.
C11_ProductOrder ==
    (call.fn = "OperatorBase.primitive" /\ call.op.kind = "prod") =>
        LET F == Factors(call.op)
            order == IF call.prim = "right" THEN F ELSE Reverse(F)
        IN /\ call.ret = Chained(order, call.prim, call.t,
                                 [data |-> call.data, log |-> <<>>])
           /\ (\A i \in 1..Len(F) : F[i].kind # "sum") =>
                /\ Len(call.ret.log) = Len(F)
                /\ \A i \in 1..Len(F) :
                     call.ret.log[i] = Invoked(order[i], call.prim, call.t)

\* C11 witness: apply_to_wave_function of (A1 * A2) * A3 with three different
\* leaf factors invoked A3 first and A1 last.
C11_Witness ==
    /\ call.fn = "OperatorBase.primitive"
    /\ call.prim = "wf"
    /\ call.op.kind = "prod"
    /\ call.op.ops[1].kind = "prod"
    /\ Len(Factors(call.op)) = 3
    /\ Cardinality({Factors(call.op)[i] : i \in 1..3}) = 3
    /\ \A i \in 1..3 : Factors(call.op)[i].kind # "sum"
    /\ call.ret.log[1].op = Factors(call.op)[3]
    /\ call.ret.log[3].op = Factors(call.op)[1]

\* C12: an OperatorSum or OperatorProduct is time-dependent exactly when one of
\* its members, at any nesting depth and with numbers wrapped as Constant, is
\* time-dependent.
C12_TimeDependence ==
    call.fn = "OperatorBase.time_dependent" =>
        LET L == Leaves(call.op)
        IN /\ call.op.kind \in {"sum", "prod"}
           /\ call.ret <=> \E i \in 1..Len(L) : L[i].kind = "td"
           /\ call.ret <=> \E i \in 1..Len(call.op.ops) :
                               TimeDependent(call.op.ops[i])

\* C12 witness: a composite whose only time-dependent operator sits in the
\* second member, one level down, reports time_dependent = true.
C12_Witness ==
    /\ call.fn = "OperatorBase.time_dependent"
    /\ call.op.ops[1].kind = "const"
    /\ call.op.ops[2].kind \in {"sum", "prod"}
    /\ call.op.ops[2].ops[1].kind = "const"
    /\ call.op.ops[2].ops[2].kind = "td"
    /\ call.ret

RECURSIVE SumOfResults(_, _)
\* r1.result + .. + rn.result of member results, as coefficient arrays
SumOfResults(results, shape) ==
    IF results = <<>> THEN TZeros(shape)
    ELSE TAdd(SumOfResults(SubSeq(results, 1, Len(results) - 1), shape),
              results[Len(results)].result.data)

C15_CommutatorOfPureDensity ==
    call.fn = "CommutatorLiouvillian.apply" =>
        LET H == call.op
            psi == call.psi
            d == ExprApplyResult(SchroedingerEquation(H), psi, call.t)
            left == ApplyPrim(H, "left", call.state.data, call.t)
            right == ApplyPrim(H, "right", call.state.data, call.t)
        IN /\ d.outcome = "ok"
           /\ call.ret.outcome = "ok"
           /\ call.ret.result =
                StateArith("add", DirectProduct(d.result, psi).result,
                           DirectProduct(psi, d.result).result).result
           /\ call.ret.result.data = TScale(CMinusI, TSub(left.data, right.data))
           /\ call.ret.log = left.log \o right.log
           /\ H.kind \notin {"sum", "prod"} =>
                call.ret.log = <<Invoked(H, "left", call.t), Invoked(H, "right", call.t)>>

\* C15 witness: the commutator of a Potential1D with a pure density on a grid
\* of two degrees of freedom, with a nonzero result.
C15_Witness ==
    /\ call.fn = "CommutatorLiouvillian.apply"
    /\ call.op.kind = "pot"
    /\ NDof(call.state.grid) = 2
    /\ call.ret.outcome = "ok"
    /\ call.ret.result.data # TZeros(OperatorShape(call.state.grid))

\* C16: the generator function of a Potential1D, PlaneWaveFbrOperator,
\* FbrOperator1D, CartesianKineticEnergy or RotationalKineticEnergy is called
\* exactly once, during construction, and never during an apply_* call,
\* whatever the sequence of applications.
C16_GeneratorCalledOnce ==
    /\ genRun.op.kind # "none" => Len(genRun.generator_log) = 1
    /\ (call.fn \in {"Potential1D.__init__", "PlaneWaveFbrOperator.__init__",
                     "FbrOperator1D.__init__", "CartesianKineticEnergy.__init__",
                     "RotationalKineticEnergy.__init__"}
        /\ call.ret.outcome = "ok") =>
           /\ Len(call.ret.generator_log) = 1
           /\ genRun.generator_log = call.ret.generator_log
           /\ genRun.applications = <<>>

\* C16 witness: a CartesianKineticEnergy after MaxApplications applications,
\* the last one from the right.
C16_Witness ==
    /\ call.fn = "Generated.apply"
    /\ call.prim = "right"
    /\ genRun.op.kind = "PlaneWaveFbrOperator"
    /\ genRun.generator_log[1].generator.kind = "cartesian"
    /\ Len(genRun.applications) = MaxApplications
    /\ Len(genRun.generator_log) = 1

\* C17: constructing a Grid without any degree of freedom (None or an empty
\* sequence) fails with InvalidValueError, so every Grid that exists has at
\* least one DOF, a non-empty shape, and an operator_shape equal to the shape
\* concatenated with itself.
C17_GridNeedsDof ==
    /\ call.fn = "Grid.__init__" =>
         /\ (call.arg.kind = "None"
             \/ (call.arg.kind = "sequence" /\ call.arg.dofs = <<>>)) =>
                call.ret.outcome = "InvalidValueError"
         /\ call.ret.outcome = "ok" =>
                /\ Len(call.ret.result.dofs) >= 1
                /\ call.ret.result.shape # <<>>
    /\ call.fn = "Grid.property" =>
         /\ Len(call.grid.dofs) >= 1
         /\ call.name = "shape" => call.ret # <<>>
         /\ call.name = "operator_shape" => call.ret = call.grid.shape \o call.grid.shape


\* C18: constructing a plane-wave DOF with a non-positive width
\* (xmax - xmin <= 0) or a non-positive number of points (n <= 0) fails with
\* InvalidValueError and with no other exception, and no DOF is created.
C18_PlaneWaveRejects ==
    call.fn = "PlaneWaveDof.__init__" =>
        ((call.arg.xmax - call.arg.xmin <= 0 \/ call.arg.n <= 0) =>
            call.ret.outcome = "InvalidValueError")


\* the basis that a Projection.__init__ call was given, as a sequence
BasisOf(arg) == IF arg.kind = "State" THEN <<arg.state>> ELSE arg.states

\* C19: constructing a Projection raises InvalidValueError for an empty basis
\* and BadStateError if any basis element is not a wave function or has zero
\* trace, whether the basis is a single State or a sequence; in all these
\* cases no Projection object is created.
C19_ProjectionRejects ==
    call.fn = "Projection.__init__" =>
        /\ BasisOf(call.arg) = <<>> =>
              (call.ret.outcome = "InvalidValueError" /\ call.ret.result = "none")
        /\ (\E k \in 1..Len(BasisOf(call.arg)) :
               \/ ~IsWaveFunction(BasisOf(call.arg)[k])
               \/ Norm2(BasisOf(call.arg)[k].data.vals) = 0) =>
              (call.ret.outcome = "BadStateError" /\ call.ret.result = "none")

\* a two-element basis whose first element is valid and whose second has
\* zero trace was rejected, and so was a single density operator
C19_Witness ==
    /\ call.fn = "Projection.__init__"
    /\ call.arg.kind = "sequence"
    /\ Len(call.arg.states) = 2
    /\ IsWaveFunction(call.arg.states[1])
    /\ trace(call.arg.states[1]) # 0
    /\ IsWaveFunction(call.arg.states[2])
    /\ trace(call.arg.states[2]) = 0
    /\ call.ret.outcome = "BadStateError"

\* C20 as stated: orthonormalize returns its input unchanged for zero or one
\* state; a single wave function (of nonzero trace, as the function requires)
\* yields a one-element list holding that state with unchanged coefficients.
C20_ReturnsInputUnchanged ==
    (call.fn = "orthonormalize" /\ Len(call.states) <= 1
        /\ \A k \in 1..Len(call.states) :
              IsWaveFunction(call.states[k]) /\ trace(call.states[k]) # 0) =>
        (call.ret.outcome = "ok" /\ call.ret.result = call.states)

\* C20, amended: an empty input yields an empty list; a single wave function
\* of nonzero trace yields a one-element list holding, on the same grid, the
\* normalized state: the input's coefficients divided by the square root of
\* its trace, whose trace is 1; the coefficients are unchanged exactly when
\* the input's trace is 1.
C20_SingleIsNormalized ==
    /\ (call.fn = "orthonormalize" /\ call.states = <<>>) =>
          (call.ret.outcome = "ok" /\ call.ret.result = <<>>)
    /\ (call.fn = "orthonormalize" /\ Len(call.states) = 1
          /\ IsWaveFunction(call.states[1]) /\ trace(call.states[1]) # 0) =>
          /\ call.ret.outcome = "ok"
          /\ Len(call.ret.result) = 1
          /\ call.ret.result[1].grid = call.states[1].grid
          /\ call.ret.result[1].data.shape = call.states[1].data.shape
          /\ call.ret.result[1].data.vals = call.states[1].data.vals
          /\ call.ret.result[1].data.over = trace(call.states[1])
          /\ trace(call.ret.result[1]) = 1
          /\ (call.ret.result = call.states) <=> (trace(call.states[1]) = 1)
    /\ (call.fn = "trace" /\ call.state.data.over # 0) => call.ret = 1

\* a single wave function of trace 2 came back divided by sqrt(2)
C20_Witness ==
    /\ call.fn = "orthonormalize"
    /\ Len(call.states) = 1
    /\ call.ret.outcome = "ok"
    /\ trace(call.states[1]) = 2
    /\ call.ret.result[1].data.over = 2
    /\ call.ret.result # call.states


\* C21: for every density operator, whatever the values on its diagonal,
\* trace returns the sum of the diagonal elements of its matrix form; and
\* trace(pure_density(psi)) = trace(psi) for a wave function psi.
C21_TraceIsDiagonalSum ==
    call.fn = "grid.trace" =>
        /\ IsDensityOperator(call.state) =>
              <<call.ret, 0>> = ZSum(Diagonal(call.state))
        /\ call.of = "pure_density" => call.ret = trace(call.psi)


C23_TimeDependentOperator ==
    /\ call.fn = "TimeDependentOperator.primitive" =>
          /\ call.prim \in {"wf", "left"} =>
                call.ret.data = TScale(TdFunc(call.op.func, call.t), call.data)
          /\ call.prim = "right" =>
                call.ret.data = TScale(CConj(TdFunc(call.op.func, call.t)), call.data)
          /\ call.ret.func_calls = <<call.t>>
    /\ call.fn = "TimeDependentOperator.time_dependent" => call.ret = TRUE

\* apply_from_right ran with a function value that is not real, on data that
\* the conjugation changes
C23_Witness ==
    /\ call.fn = "TimeDependentOperator.primitive"
    /\ call.prim = "right"
    /\ TdFunc(call.op.func, call.t)[2] # 0
    /\ call.ret.data # TScale(TdFunc(call.op.func, call.t), call.data)


\* state0 after k steps, the j-th started at t0 + (j - 1) * dt
SteppedTimes(gen, k) ==
    [state0 |-> gen.state0.state0, steps |-> [j \in 1..k |-> gen.t0 + (j - 1) * gen.dt]]

\* the number of pairs yielded before those of the steps
FirstPairs(gen) == IF gen.include_first /\ gen.pos # "created" THEN 1 ELSE 0

\* C24: for num_steps = n >= 0, iterating propagate(state0, t0, n,
\* include_first) yields exactly n pairs, preceded by (t0, state0) exactly
\* when include_first is true; the k-th of the n pairs is (t0 + k * dt, step
\* applied k times to state0); step is called exactly n times, the k-th call
\* receiving the previous result and the start time t0 + (k - 1) * dt; for
\* negative n the iteration raises InvalidValueError before yielding any pair
\* and before calling step.
C24_Propagate ==
    call.fn = "SolverBase.propagate" =>
        /\ call.num_steps < 0 =>
              /\ call.pos \in {"created", "raised"}
              /\ call.pos = "raised" => call.outcome = "InvalidValueError"
              /\ call.yields = <<>>
              /\ call.step_calls = <<>>
        /\ call.num_steps >= 0 =>
              /\ call.outcome = "ok" /\ call.pos # "raised"
              /\ Len(call.yields) = FirstPairs(call) + call.step
              /\ Len(call.step_calls) = call.step
              /\ call.step <= call.num_steps
              /\ call.pos = "done" => call.step = call.num_steps
              /\ FirstPairs(call) = 1 =>
                    call.yields[1] = [t |-> call.t0, state |-> call.state0]
              /\ \A k \in 1..call.step :
                    /\ call.yields[FirstPairs(call) + k]
                         = [t |-> call.t0 + k * call.dt, state |-> SteppedTimes(call, k)]
                    /\ call.step_calls[k]
                         = [state |-> SteppedTimes(call, k - 1),
                            t |-> call.t0 + (k - 1) * call.dt]

\* a propagation over the largest number of steps ran to its end without the
\* initial pair, starting at a nonzero time
C24_Witness ==
    /\ call.fn = "SolverBase.propagate"
    /\ call.pos = "done"
    /\ call.num_steps = MaxNumSteps
    /\ ~call.include_first
    /\ call.t0 # 0
    /\ Len(call.yields) = MaxNumSteps


\* the composite with the members it was constructed from
CompositeBuilt(h) == [kind |-> h.obj.kind, grid |-> h.obj.grid, ops |-> h.built]

C26_DofIndex ==
    /\ call.fn = "Indexed.__init__" =>
          /\ DofsItemError(call.grid, call.dof_index) => call.ret.outcome = "IndexError"
          /\ call.ret.outcome = "IndexError" => DofsItemError(call.grid, call.dof_index)
    /\ call.fn = "Indexed.apply" =>
          /\ GeneratedAxis(call.op, call.prim, call.data)
                = (call.dof_index % Len(call.grid)) + 1
                  + (IF call.prim = "right" THEN Len(call.grid) ELSE 0)
          /\ call.ret
                = ApplyGenerated(NewIndexed(call.cls, call.grid,
                                            call.dof_index % Len(call.grid),
                                            call.gen, call.cutoff).result,
                                 call.prim, call.data)

\* a PlaneWaveFbrOperator built with index -1 on a grid of two DOFs has been
\* applied from the right
C26_Witness ==
    /\ call.fn = "Indexed.apply"
    /\ call.cls = "PlaneWaveFbrOperator"
    /\ Len(call.grid) = 2
    /\ call.dof_index = 0 - 1
    /\ call.prim = "right"
    /\ call.ret # call.data


RECURSIVE SeriesSum(_, _, _)
\* c_0 * term_0 + .. + c_n * term_n for the polynomial terms term_0..term_n
SeriesSum(s, terms, n) ==
    IF n = 0 THEN SMul(Cx(s.coeffs[1], 0), terms[1])
    ELSE StateArith("add", SeriesSum(s, terms, n - 1),
                    SMul(Cx(s.coeffs[n + 1], 0), terms[n + 1])).result

\* C27: a step call that returns has applied the wrapped expression or
\* Hamiltonian exactly `order` times, always at time 0: once to the input for
\* the first-order term and once in each loop pass n = 2..order, to the
\* polynomial term of index n-1, the new term being built from it and the term
\* of index n-2; the result is the prefactor times the sum of c_n * term_n
\* over n = 0..order.
C27_StepSeries ==
    (call.fn = "Solver.step" /\ call.ret.outcome = "ok") =>
        LET s == call.self
            r == call.ret
            N == Order(call.self)
        IN /\ Len(r.applied) = N
           /\ \A k \in 1..N : r.applied[k].t = 0
           /\ Len(r.terms) = N + 1
           /\ r.terms[1] = call.state
           /\ r.applied[1].state = call.state
           /\ r.terms[2] = FirstTerm(s, ApplyNormalized(s, call.state).result)
           /\ \A n \in 2..N :
                /\ r.applied[n].state = r.terms[n]
                /\ r.terms[n + 1]
                      = NextTerm(s, ApplyNormalized(s, r.terms[n]).result, r.terms[n - 1])
           /\ r.result = SMul(s.prefactor, SeriesSum(s, r.terms, N))

\* a step of a solver of order 4 called with t = 1 has returned a state other
\* than its input
C27_Witness ==
    /\ call.fn = "Solver.step"
    /\ call.ret.outcome = "ok"
    /\ call.t = 1
    /\ Order(call.self) = 4
    /\ call.ret.result # call.state
    /\ call.ret.terms[4] # call.ret.terms[2]


\* C28 as stated: for every constructed solver the Bessel value of index
\* order-1 is >= the cutoff and the Bessel value of index order is < the
\* cutoff.
C28_BesselBracket ==
    (call.fn = "Solver.__init__" /\ call.ret.outcome = "ok") =>
        /\ call.jv[Order(call.ret.result) - 1] >= call.cutoff
        /\ call.jv[Order(call.ret.result)] < call.cutoff

\* C28 amended: order is the first index n > 2 at which twice the Bessel
\* value has a magnitude below the cutoff: |2 B(order)| < cutoff, no index n
\* with 2 < n < order has |2 B(n)| < cutoff, and the indices 1 and 2 are
\* never tested, so order = 3 also when B(2) is below the cutoff.
C28_FirstTestedIndex ==
    (call.fn = "Solver.__init__" /\ call.ret.outcome = "ok") =>
        LET N == Order(call.ret.result)
        IN /\ N > 2
           /\ Abs(2 * call.jv[N]) < call.cutoff
           /\ \A n \in 1..(N - 1) : n > 2 => Abs(2 * call.jv[n]) >= call.cutoff
           /\ (\A n \in 1..3 : Abs(2 * call.jv[n]) < call.cutoff) => N = 3

\* a RelaxationSolver of order 3 whose Bessel value of index 2 is below the
\* cutoff
C28_Witness ==
    /\ call.fn = "Solver.__init__"
    /\ call.kind = "relaxation"
    /\ call.ret.outcome = "ok"
    /\ Order(call.ret.result) = 3
    /\ call.jv[2] < call.cutoff
    /\ Abs(2 * call.jv[2]) < call.cutoff


\* C29: a State is never both a wave function and a density operator: its
\* grid's shape and operator_shape are different tuples, so the dispatch of
\* apply on the state's shape class is unambiguous.
C29_OneShapeClass ==
    call.fn \in {"OperatorBase.apply", "Expression.apply"} =>
        /\ GridShape(call.state.grid) # OperatorShape(call.state.grid)
        /\ ~(IsWaveFunction(call.state) /\ IsDensityOperator(call.state))


\* a value strictly between 0 and 1: cos(pi * num / (2 * den)) with 0 < num < den
StrictlyBetween(v) == v.kind = "cos" /\ 0 < v.num /\ v.num < v.den

\* C30: SoftRectangularFunction(t0, half_width, border) returns 0 for
\* t <= t0 - half_width - border, the cosine turn-on value up to
\* t0 - half_width, 1 up to t0 + half_width, the turn-off value
\* cos(pi * (t - (t0 + half_width)) / (2 * border)), strictly between 0 and 1,
\* for t strictly inside (t0 + half_width, t0 + half_width + border), and 0
\* beyond that interval.
C30_SoftRectangular ==
    call.fn = "SoftRectangularFunction.__call__" =>
        LET b == BorderOf(call.half_width, call.border)
            lo == 10 * call.t0 - 10 * call.half_width
            hi == 10 * call.t0 + 10 * call.half_width
        IN /\ call.t <= lo - b => call.ret = Number(0)
           /\ (lo - b < call.t /\ call.t <= lo) => call.ret = CosOf(lo - call.t, b)
           /\ (lo < call.t /\ call.t <= hi) => call.ret = Number(1)
           /\ (hi < call.t /\ call.t < hi + b) =>
                /\ call.ret = CosOf(call.t - hi, b)
                /\ StrictlyBetween(call.ret)
           /\ call.t > hi + b => call.ret = Number(0)

====
